---- MODULE Spec2Model ----
(***************************************************************************)
(* A model of dx-db-sync: the reconciliation of a MySQL schema against a   *)
(* Divblox data model (syncDatabase and the functions it calls), together  *)
(* with the part of MySQL's behaviour that the statements it issues rely   *)
(* on.                                                                     *)
(*                                                                         *)
(* Identifiers (entity, attribute, table, column, index, constraint names) *)
(* are sequences of one-character strings, so that the case helpers can be *)
(* computed character by character as the code does.  JavaScript values    *)
(* that the code compares with === are records [t, v]: t is the JavaScript *)
(* type and v the value written as a string.  A JavaScript object whose    *)
(* key order the code iterates over is a sequence of [k, v] pairs.         *)
(***************************************************************************)
EXTENDS Integers, Sequences, FiniteSets, TLC

\* ------------------------------------------------------------ bounds

\* Number of consecutive syncDatabase runs on the same database.
MaxRuns == 2
\* Roles per relationship of the second entity of the generated data models.
MaxRoles == 2
\* Orphan tables (tables of no entity) in the initial main schema.
MaxOrphans == 3
\* The first MaxFailAt statements of a phase may fail with a driver error.
MaxFailAt == 2

\* ------------------------------------------------------------ characters and strings

LowerChars ==
    <<"a", "b", "c", "d", "e", "f", "g", "h", "i", "j", "k", "l", "m",
      "n", "o", "p", "q", "r", "s", "t", "u", "v", "w", "x", "y", "z">>

UpperChars ==
    <<"A", "B", "C", "D", "E", "F", "G", "H", "I", "J", "K", "L", "M",
      "N", "O", "P", "Q", "R", "S", "T", "U", "V", "W", "X", "Y", "Z">>

IsUpper(c) == \E i \in 1..Len(UpperChars) : UpperChars[i] = c

IsLower(c) == \E i \in 1..Len(LowerChars) : LowerChars[i] = c

\* String.prototype.toLowerCase, one character
ToLower(c) ==
    IF IsUpper(c)
    THEN LowerChars[CHOOSE i \in 1..Len(UpperChars) : UpperChars[i] = c]
    ELSE c

\* String.prototype.toUpperCase, one character
ToUpper(c) ==
    IF IsLower(c)
    THEN UpperChars[CHOOSE i \in 1..Len(LowerChars) : LowerChars[i] = c]
    ELSE c

\* String.prototype.toLowerCase
LowerCase(s) == [i \in 1..Len(s) |-> ToLower(s[i])]

\* Array.prototype.includes on a sequence
Includes(seq, x) == \E i \in 1..Len(seq) : seq[i] = x

\* Array.prototype.filter(x => !other.includes(x))
RECURSIVE Without(_, _)
Without(seq, other) ==
    IF seq = <<>> THEN <<>>
    ELSE (IF Includes(other, Head(seq)) THEN <<>> ELSE <<Head(seq)>>)
         \o Without(Tail(seq), other)

\* The elements of a sequence
Range(seq) == {seq[i] : i \in 1..Len(seq)}

\* ------------------------------------------------------------ JavaScript values and objects

JNull == [t |-> "null", v |-> ""]
JStr(x) == [t |-> "string", v |-> x]
JNum(x) == [t |-> "number", v |-> x]
JBool(b) == [t |-> "boolean", v |-> IF b THEN "true" ELSE "false"]

\* Number.prototype.toString / String.prototype.toString
JToString(x) == JStr(x.v)

\* Object.keys of an ordered object
Keys(obj) == [i \in 1..Len(obj) |-> obj[i].k]

\* obj[k] !== undefined
Has(obj, k) == \E i \in 1..Len(obj) : obj[i].k = k

\* obj[k]
Get(obj, k) == obj[CHOOSE i \in 1..Len(obj) : obj[i].k = k].v

\* ------------------------------------------------------------ dx-utilities case helpers

\* camelCaseString.replace(lower-upper boundary, splitter).toLowerCase()
RECURSIVE CamelSplitFrom(_, _, _)
CamelSplitFrom(s, splitter, i) ==
    IF i > Len(s) THEN <<>>
    ELSE (IF i > 1 /\ IsLower(s[i - 1]) /\ IsUpper(s[i]) THEN splitter ELSE <<>>)
         \o <<ToLower(s[i])>>
         \o CamelSplitFrom(s, splitter, i + 1)

getCamelCaseSplittedToLowerCase(s, splitter) == CamelSplitFrom(s, splitter, 1)

\* lowerCaseString.split(splitter), for a one-character splitter
RECURSIVE SplitOn(_, _, _)
SplitOn(s, c, word) ==
    IF s = <<>> THEN <<word>>
    ELSE IF Head(s) = c THEN <<word>> \o SplitOn(Tail(s), c, <<>>)
    ELSE SplitOn(Tail(s), c, Append(word, Head(s)))

Capitalize(word) ==
    IF word = <<>> THEN <<>> ELSE <<ToUpper(Head(word))>> \o Tail(word)

RECURSIVE JoinCapitalized(_)
JoinCapitalized(words) ==
    IF words = <<>> THEN <<>>
    ELSE Capitalize(Head(words)) \o JoinCapitalized(Tail(words))

convertLowerCaseToCamelCase(s, splitter) ==
    LET words == SplitOn(s, Head(splitter), <<>>)
    IN  Head(words) \o JoinCapitalized(Tail(words))

convertLowerCaseToPascalCase(s, splitter) ==
    JoinCapitalized(SplitOn(s, Head(splitter), <<>>))

\* ------------------------------------------------------------ constants.js

SNAKE_CASE == "snakecase"
PASCAL_CASE == "pascalcase"
CAMEL_CASE == "camelcase"

DB_IMPLEMENTATION_TYPES == {SNAKE_CASE, PASCAL_CASE, CAMEL_CASE}

Underscore == <<"_">>

\* ------------------------------------------------------------ state

VARIABLES
    options,                     \* the options object syncDatabase is called with
    skipUserPrompts,             \* the second argument of syncDatabase
    answers,                     \* what the operator will type at the prompts, in order
    databaseCaseImplementation,  \* module-level variables of index.js
    dataModel,
    databaseConfig,
    moduleConnections,
    foreignKeyChecksDisabled,
    existingTables,
    tablesToCreate,              \* locals of syncDatabase that live across its phases
    tablesToRemove,
    pc,                          \* the position of syncDatabase
    result,                      \* how the run ended
    db,                          \* the MySQL server: schema -> table name -> table
    engines,                     \* the Support value SHOW ENGINES gives for InnoDB
    fkc,                         \* the session variable FOREIGN_KEY_CHECKS of each connection
    txn,                         \* whether each connection has an open transaction
    nextId,                      \* the source of the random constraint names
    log,                         \* the statements the run has issued, in order
    run                          \* the number of the run

vars ==
    <<options, skipUserPrompts, answers, databaseCaseImplementation, dataModel,
      databaseConfig, moduleConnections, foreignKeyChecksDisabled, existingTables,
      tablesToCreate, tablesToRemove, pc, result, db, engines, fkc, txn, nextId,
      log, run>>

\* ------------------------------------------------------------ case helpers of index.js

\* The switch of getCaseNormalizedString on the case policy
CaseNormalized(policy, inputString) ==
    CASE policy = SNAKE_CASE ->
            getCamelCaseSplittedToLowerCase(inputString, Underscore)
      [] policy = PASCAL_CASE ->
            convertLowerCaseToPascalCase(
                getCamelCaseSplittedToLowerCase(inputString, Underscore), Underscore)
      [] policy = CAMEL_CASE ->
            convertLowerCaseToCamelCase(
                getCamelCaseSplittedToLowerCase(inputString, Underscore), Underscore)
      [] OTHER -> getCamelCaseSplittedToLowerCase(inputString, Underscore)

getCaseNormalizedString(inputString) ==
    CaseNormalized(databaseCaseImplementation, inputString)

\* The switch of getCaseDenormalizedString on the case policy
CaseDenormalized(policy, inputString) ==
    CASE policy = SNAKE_CASE ->
            convertLowerCaseToCamelCase(inputString, Underscore)
      [] policy \in {PASCAL_CASE, CAMEL_CASE} ->
            convertLowerCaseToCamelCase(
                getCamelCaseSplittedToLowerCase(inputString, Underscore), Underscore)
      [] OTHER -> convertLowerCaseToCamelCase(inputString, Underscore)

getCaseDenormalizedString(inputString) ==
    CaseDenormalized(databaseCaseImplementation, inputString)

\* The switch of getPrimaryKeyColumn on the case policy
PrimaryKeyColumnOf(policy) ==
    CASE policy = SNAKE_CASE -> <<"i", "d">>
      [] policy = PASCAL_CASE -> <<"I", "d">>
      [] policy = CAMEL_CASE -> <<"i", "d">>
      [] OTHER -> <<"i", "d">>

getPrimaryKeyColumn == PrimaryKeyColumnOf(databaseCaseImplementation)

getLockingConstraintColumn ==
    CASE databaseCaseImplementation = SNAKE_CASE ->
            <<"l", "a", "s", "t", "_", "u", "p", "d", "a", "t", "e", "d">>
      [] databaseCaseImplementation = PASCAL_CASE ->
            <<"L", "a", "s", "t", "U", "p", "d", "a", "t", "e", "d">>
      [] databaseCaseImplementation = CAMEL_CASE ->
            <<"l", "a", "s", "t", "U", "p", "d", "a", "t", "e", "d">>
      [] OTHER -> <<"l", "a", "s", "t", "_", "u", "p", "d", "a", "t", "e", "d">>

\* The separator between the two parts of a relationship column
RelationshipSplitter ==
    CASE databaseCaseImplementation = SNAKE_CASE -> Underscore
      [] databaseCaseImplementation \in {PASCAL_CASE, CAMEL_CASE} -> <<>>
      [] OTHER -> Underscore

\* ------------------------------------------------------------ expected columns and constraints

\* The (related entity, role) pairs of dataModel[entityName].relationships, in
\* the order of the two nested loops over them
RECURSIVE RolesOf(_, _)
RolesOf(rel, roles) ==
    IF roles = <<>> THEN <<>>
    ELSE <<[rel |-> rel, role |-> Head(roles)]>> \o RolesOf(rel, Tail(roles))

RECURSIVE RelationshipPairs(_)
RelationshipPairs(relationships) ==
    IF relationships = <<>> THEN <<>>
    ELSE RolesOf(Head(relationships).k, Head(relationships).v)
         \o RelationshipPairs(Tail(relationships))

RelationshipColumnName(pair) ==
    getCaseNormalizedString(pair.rel) \o RelationshipSplitter
        \o getCaseNormalizedString(pair.role)

getEntityRelationshipColumns(entityName) ==
    LET pairs == RelationshipPairs(Get(dataModel, entityName).relationships)
    IN  [i \in 1..Len(pairs) |-> RelationshipColumnName(pairs[i])]

\* The md5 digest of Date.now() and Math.random(): a name no earlier call gave
Digits == <<"0", "1", "2", "3", "4", "5", "6", "7", "8", "9">>

UniqueIdentifier(n) ==
    <<"#", Digits[((n \div 100) % 10) + 1], Digits[((n \div 10) % 10) + 1],
      Digits[(n % 10) + 1]>>

\* seed: the number of constraint names generated so far
getEntityRelationshipConstraint(entityName, seed) ==
    LET pairs == RelationshipPairs(Get(dataModel, entityName).relationships)
    IN  [i \in 1..Len(pairs) |->
            [columnName |-> RelationshipColumnName(pairs[i]),
             constraintName |-> UniqueIdentifier(seed + i)]]

\* The related entity of a relationship column; <<>> stands for null
getEntityRelationshipFromRelationshipColumn(entityName, relationshipColumnName) ==
    LET pairs == RelationshipPairs(Get(dataModel, entityName).relationships)
        hits == {i \in 1..Len(pairs) :
                    RelationshipColumnName(pairs[i]) = relationshipColumnName}
    IN  IF hits = {} THEN <<>>
        ELSE pairs[CHOOSE i \in hits : \A j \in hits : i <= j].rel

\* options is defined, has the key, and the key is not false
LockingEnforced(entityDefinition) ==
    /\ "options" \in DOMAIN entityDefinition
    /\ Has(entityDefinition.options, "enforceLockingConstraints")
    /\ Get(entityDefinition.options, "enforceLockingConstraints") # JBool(FALSE)

getEntityExpectedColumns(entityName) ==
    LET e == Get(dataModel, entityName)
        attributeColumns ==
            [i \in 1..Len(e.attributes) |-> getCaseNormalizedString(e.attributes[i].k)]
        relationshipColumns ==
            LET cols == getEntityRelationshipColumns(entityName)
            IN  [i \in 1..Len(cols) |-> getCaseNormalizedString(cols[i])]
    IN  <<getPrimaryKeyColumn>> \o attributeColumns \o relationshipColumns
        \o (IF LockingEnforced(e) THEN <<getLockingConstraintColumn>> ELSE <<>>)

\* ------------------------------------------------------------ MySQL
\* A schema is a function from table names to tables.  A table is
\* [cols, idx, fks]: its columns as SHOW FULL COLUMNS lists them, its indexes
\* as SHOW INDEX lists them, and its foreign keys as
\* information_schema.REFERENTIAL_CONSTRAINTS lists them.  Type is the part of
\* SHOW FULL COLUMNS' Type before "(" and Len the part between the brackets.

PRIMARY == <<"P", "R", "I", "M", "A", "R", "Y">>

CURRENT_TIMESTAMP == "CURRENT_TIMESTAMP"

NoDef == [type |-> "", len |-> JNull, notNull |-> FALSE, default |-> JNull, pk |-> FALSE]

\* A statement: every kind carries the same fields, those it does not use empty
Stmt(kind) ==
    [kind |-> kind, table |-> <<>>, name |-> <<>>, col |-> <<>>, def |-> NoDef,
     ref |-> <<>>, refCol |-> <<>>, tables |-> <<>>, value |-> 0]

\* MySQL reports type names in lower case
SqlLower(type) ==
    CASE type = "BIGINT" -> "bigint"
      [] type = "VARCHAR" -> "varchar"
      [] type = "DATETIME" -> "datetime"
      [] OTHER -> type

\* The column a column definition creates
ColumnOf(name, def) ==
    IF def.pk
    THEN [Field |-> name, Type |-> "bigint", Len |-> JStr("20"), Null |-> "NO",
          Default |-> JNull]
    ELSE [Field |-> name, Type |-> SqlLower(def.type), Len |-> def.len,
          Null |-> IF def.notNull THEN "NO" ELSE "YES", Default |-> def.default]

ColumnIndex(tbl, name) == {i \in 1..Len(tbl.cols) : tbl.cols[i].Field = name}

HasColumn(tbl, name) == ColumnIndex(tbl, name) # {}

HasIndex(tbl, name) == \E i \in 1..Len(tbl.idx) : tbl.idx[i].name = name

HasIndexOn(tbl, col) == \E i \in 1..Len(tbl.idx) : tbl.idx[i].col = col

HasForeignKey(tbl, name) == \E i \in 1..Len(tbl.fks) : tbl.fks[i].name = name

HasForeignKeyOn(tbl, col) == \E i \in 1..Len(tbl.fks) : tbl.fks[i].col = col

\* Constraint names are unique within a schema
ConstraintNames(d) == UNION {{d[t].fks[i].name : i \in 1..Len(d[t].fks)} : t \in DOMAIN d}

\* Some table outside dropped holds a foreign key that references table t
ReferencedFromOutside(d, t, dropped) ==
    \E u \in DOMAIN d \ dropped : \E i \in 1..Len(d[u].fks) : d[u].fks[i].ref = t

\* MySQL refuses statement st on schema d under FOREIGN_KEY_CHECKS = fk
Fails(d, fk, st) ==
    LET t == st.table
        known == t \in DOMAIN d
    IN  CASE st.kind = "CREATE TABLE" -> known
          [] st.kind = "DROP TABLE" ->
                \/ st.tables = <<>>
                \/ /\ fk = 1
                   /\ \E x \in Range(st.tables) \cap DOMAIN d :
                          ReferencedFromOutside(d, x, Range(st.tables))
          [] st.kind \in {"SHOW FULL COLUMNS", "SHOW INDEX"} -> ~known
          [] st.kind = "ADD COLUMN" ->
                \/ ~known
                \/ HasColumn(d[t], st.col)
                \/ st.def.pk /\ HasIndex(d[t], PRIMARY)
          [] st.kind = "MODIFY COLUMN" ->
                \/ ~known
                \/ ~HasColumn(d[t], st.col)
                \/ st.def.pk /\ HasIndex(d[t], PRIMARY)
          [] st.kind = "DROP COLUMN" ->
                \/ ~known
                \/ ~HasColumn(d[t], st.col)
                \/ Len(d[t].cols) = 1
                \/ fk = 1 /\ HasForeignKeyOn(d[t], st.col)
          [] st.kind = "ADD INDEX" ->
                \/ ~known
                \/ HasIndex(d[t], st.name)
                \/ ~HasColumn(d[t], st.col)
          [] st.kind = "DROP INDEX" ->
                \/ ~known
                \/ ~HasIndex(d[t], st.name)
                \/ /\ fk = 1
                   /\ \E i \in 1..Len(d[t].idx) :
                          /\ d[t].idx[i].name = st.name
                          /\ HasForeignKeyOn(d[t], d[t].idx[i].col)
                          /\ \A j \in 1..Len(d[t].idx) :
                                d[t].idx[j].col = d[t].idx[i].col => j = i
          [] st.kind = "ADD FOREIGN KEY" ->
                \/ ~known
                \/ ~HasColumn(d[t], st.col)
                \/ st.name \in ConstraintNames(d)
                \/ st.ref = <<>>
                \/ \E i \in ColumnIndex(d[t], st.col) : d[t].cols[i].Null = "NO"
                \/ ~HasIndexOn(d[t], st.col) /\ HasIndex(d[t], st.name)
                \/ fk = 1 /\ st.ref \notin DOMAIN d
          [] st.kind = "DROP FOREIGN KEY" -> ~known \/ ~HasForeignKey(d[t], st.name)
          [] OTHER -> FALSE

SkeletonTable(pk) ==
    [cols |-> <<ColumnOf(pk, [NoDef EXCEPT !.pk = TRUE])>>,
     idx |-> <<[name |-> PRIMARY, col |-> pk, auto |-> FALSE]>>,
     fks |-> <<>>]

\* The schema after MySQL has executed statement st on schema d
Effect(d, st) ==
    LET t == st.table
    IN  CASE st.kind = "CREATE TABLE" ->
                [x \in DOMAIN d \cup {t} |-> IF x = t THEN SkeletonTable(st.col) ELSE d[x]]
          [] st.kind = "DROP TABLE" ->
                [x \in DOMAIN d \ Range(st.tables) |-> d[x]]
          [] st.kind = "ADD COLUMN" ->
                [d EXCEPT ![t] =
                    IF st.def.pk
                    THEN [@ EXCEPT !.cols = <<ColumnOf(st.col, st.def)>> \o @,
                                   !.idx = <<[name |-> PRIMARY, col |-> st.col, auto |-> FALSE]>> \o @]
                    ELSE [@ EXCEPT !.cols = Append(@, ColumnOf(st.col, st.def))]]
          [] st.kind = "MODIFY COLUMN" ->
                [d EXCEPT ![t] =
                    IF st.def.pk
                    THEN [@ EXCEPT
                            !.cols = <<ColumnOf(st.col, st.def)>>
                                     \o SelectSeq(@, LAMBDA c : c.Field # st.col),
                            !.idx = <<[name |-> PRIMARY, col |-> st.col, auto |-> FALSE]>> \o @]
                    ELSE [@ EXCEPT !.cols =
                            [i \in 1..Len(@) |->
                                IF @[i].Field = st.col THEN ColumnOf(st.col, st.def)
                                ELSE @[i]]]]
          [] st.kind = "DROP COLUMN" ->
                [d EXCEPT ![t] =
                    [@ EXCEPT !.cols = SelectSeq(@, LAMBDA c : c.Field # st.col),
                              !.idx = SelectSeq(@, LAMBDA x : x.col # st.col),
                              !.fks = SelectSeq(@, LAMBDA f : f.col # st.col)]]
          [] st.kind = "ADD INDEX" ->
                [d EXCEPT ![t].idx = Append(@, [name |-> st.name, col |-> st.col,
                                                 auto |-> FALSE])]
          [] st.kind = "DROP INDEX" ->
                [d EXCEPT ![t].idx = SelectSeq(@, LAMBDA x : x.name # st.name)]
          [] st.kind = "ADD FOREIGN KEY" ->
                \* MySQL creates the index a foreign key needs, named after the
                \* constraint, when the column has no index yet
                [d EXCEPT ![t] =
                    [@ EXCEPT
                        !.fks = Append(@, [name |-> st.name, col |-> st.col, ref |-> st.ref,
                                           refCol |-> st.refCol,
                                           rule |-> "ON DELETE SET NULL ON UPDATE CASCADE"]),
                        !.idx = IF HasIndexOn(d[t], st.col) THEN @
                                ELSE Append(@, [name |-> st.name, col |-> st.col,
                                                auto |-> TRUE])]]
          [] st.kind = "DROP FOREIGN KEY" ->
                [d EXCEPT ![t].fks = SelectSeq(@, LAMBDA f : f.name # st.name)]
          [] OTHER -> d

\* ALTER TABLE, CREATE TABLE and DROP TABLE commit the open transaction
IsDDL(st) ==
    st.kind \in {"CREATE TABLE", "DROP TABLE", "ADD COLUMN", "MODIFY COLUMN", "DROP COLUMN",
                 "ADD INDEX", "DROP INDEX", "ADD FOREIGN KEY", "DROP FOREIGN KEY"}

\* The order in which MySQL lists names: by character code
CharOrder ==
    <<"#", "0", "1", "2", "3", "4", "5", "6", "7", "8", "9">> \o UpperChars \o <<"_">>
        \o LowerChars

CharCode(c) == CHOOSE i \in 1..Len(CharOrder) : CharOrder[i] = c

RECURSIVE NameBefore(_, _)
NameBefore(a, b) ==
    IF a = <<>> THEN b # <<>>
    ELSE IF b = <<>> THEN FALSE
    ELSE IF Head(a) = Head(b) THEN NameBefore(Tail(a), Tail(b))
    ELSE CharCode(Head(a)) < CharCode(Head(b))

RECURSIVE SortedNames(_)
SortedNames(S) ==
    IF S = {} THEN <<>>
    ELSE LET first == CHOOSE x \in S : \A y \in S \ {x} : NameBefore(x, y)
         IN  <<first>> \o SortedNames(S \ {first})

\* ------------------------------------------------------------ the run's working state
\* The functions of index.js are operators on a record s that holds what they
\* read and write: the server, the sessions, foreignKeyChecksDisabled (flag),
\* the statement log, and what remains of the operator's answers.  s.n counts
\* the statements of the current phase and statement number s.failAt fails with
\* a driver error.  s.ret is how the function returned: "true", "false",
\* "throw" (an exception nobody catches), "exit0"/"exit1" (process.exit), or
\* "hang" (a prompt nobody answers).  s.pending counts the calls of
\* restoreForeignKeyChecks that were started without await, and s.inflight
\* says that a statement of such a call has been issued and not been waited
\* for.  A log entry is overlapped when its statement was issued in that
\* situation.

SchemaOf(moduleName) == Get(moduleConnections, moduleName)

Start(phase, failAt) ==
    [db |-> db, fkc |-> fkc, txn |-> txn, flag |-> foreignKeyChecksDisabled,
     log |-> log, nextId |-> nextId, answers |-> answers, n |-> 0, failAt |-> failAt,
     phase |-> phase, err |-> FALSE, ret |-> "true", pending |-> 0, inflight |-> FALSE]

\* connection.query(st) on the connection of moduleName, the statement failing
\* or not
Executed(s, moduleName, st, bad) ==
    [s EXCEPT
        !.n = @ + 1,
        !.err = bad,
        !.inflight = @ \/ s.pending > 0,
        !.log = Append(@, [phase |-> s.phase, module |-> moduleName, st |-> st,
                           fkc |-> s.fkc[moduleName], ok |-> ~bad,
                           overlapped |-> s.inflight]),
        !.db = IF bad THEN @ ELSE [@ EXCEPT ![SchemaOf(moduleName)] = Effect(@, st)],
        !.fkc = IF ~bad /\ st.kind = "SET FOREIGN_KEY_CHECKS"
                THEN [@ EXCEPT ![moduleName] = st.value] ELSE @,
        !.txn = IF ~bad /\ IsDDL(st) THEN [@ EXCEPT ![moduleName] = FALSE] ELSE @]

\* connection.query(st) on the connection of moduleName
Query(s, moduleName, st) ==
    Executed(s, moduleName, st,
             \/ s.n + 1 = s.failAt
             \/ Fails(s.db[SchemaOf(moduleName)], s.fkc[moduleName], st))

\* connection.rollback()
Rollback(s, moduleName) ==
    [s EXCEPT
        !.txn = [@ EXCEPT ![moduleName] = FALSE],
        !.log = Append(@, [phase |-> s.phase, module |-> moduleName, st |-> Stmt("ROLLBACK"),
                           fkc |-> s.fkc[moduleName], ok |-> TRUE,
                           overlapped |-> s.inflight])]

\* return false from inside a function
ReturnFalse(s) == [s EXCEPT !.ret = "false"]

\* an exception that no try block of the function catches
Throw(s) == [s EXCEPT !.ret = "throw"]

\* ------------------------------------------------------------ FK enable/disable helpers

SetForeignKeyChecks(value) == [Stmt("SET FOREIGN_KEY_CHECKS") EXCEPT !.value = value]

\* The loop of disableForeignKeyChecks from its first module on; q is the
\* state after the module's SET statement
RECURSIVE DisableFrom(_, _)
Disabled(q, modules) ==
    IF q.err THEN Rollback(q, Head(modules))
    ELSE DisableFrom([q EXCEPT !.flag = TRUE], Tail(modules))

DisableFrom(s, modules) ==
    IF modules = <<>> THEN s
    ELSE Disabled(Query(s, Head(modules), SetForeignKeyChecks(0)), modules)

disableForeignKeyChecks(s) == DisableFrom(s, Keys(moduleConnections))

RECURSIVE RestoreFrom(_, _)
Restored(q, modules) ==
    IF q.err THEN Rollback(q, Head(modules))
    ELSE RestoreFrom([q EXCEPT !.flag = FALSE], Tail(modules))

RestoreFrom(s, modules) ==
    IF modules = <<>> THEN s
    ELSE Restored(Query(s, Head(modules), SetForeignKeyChecks(1)), modules)

restoreForeignKeyChecks(s) == RestoreFrom(s, Keys(moduleConnections))

\* if (!foreignKeyChecksDisabled) await disableForeignKeyChecks();
DisableIfEnabled(s) == IF ~s.flag THEN disableForeignKeyChecks(s) ELSE s

\* if (foreignKeyChecksDisabled) await restoreForeignKeyChecks();
RestoreIfDisabled(s) == IF s.flag THEN restoreForeignKeyChecks(s) ELSE s

\* The calls of restoreForeignKeyChecks started without await run to their
\* end before a later awaited call does: each connection executes its
\* statements in the order they were issued.
RECURSIVE FinishPending(_)
FinishPending(s) ==
    IF s.pending = 0 THEN s
    ELSE FinishPending([restoreForeignKeyChecks(s) EXCEPT !.pending = s.pending - 1])

\* ------------------------------------------------------------ main functions

\* Object.keys of the tables the modules' SHOW FULL TABLES list; a query that
\* fails ends the process with process.exit(1)
RECURSIVE GetTablesFrom(_, _, _)
Listed(q, modules, tables) ==
    IF q.err
    THEN [state |-> [Rollback(q, Head(modules)) EXCEPT !.ret = "exit1"], tables |-> tables]
    ELSE GetTablesFrom(
            q, Tail(modules),
            tables \o Without(SortedNames(DOMAIN q.db[SchemaOf(Head(modules))]), tables))

GetTablesFrom(s, modules, tables) ==
    IF modules = <<>> THEN [state |-> s, tables |-> tables]
    ELSE Listed(Query(s, Head(modules), Stmt("SHOW FULL TABLES")), modules, tables)

getDatabaseTables(s) == GetTablesFrom(s, Keys(moduleConnections), <<>>)

\* beginTransaction on every connection
beginTransactionForAllModuleConnections(s) ==
    [s EXCEPT !.txn = [m \in DOMAIN s.txn |-> TRUE]]

\* getTableModuleMapping()[moduleName]: the normalized names of the entities
\* of the module; <<>> where the mapping has no such key
TablesOfModule(moduleName) ==
    [i \in 1..Len(SelectSeq(dataModel, LAMBDA e : e.v.module = moduleName)) |->
        getCaseNormalizedString(
            SelectSeq(dataModel, LAMBDA e : e.v.module = moduleName)[i].k)]

\* catch (err) { await connection.rollback(); ... } around a query, after
\* which the loop goes on
RollbackOnError(q, moduleName) == IF q.err THEN Rollback(q, moduleName) ELSE q

DropTables(tables) == [Stmt("DROP TABLE") EXCEPT !.tables = tables]

\* One DROP TABLE IF EXISTS per module that owns an entity
RECURSIVE DropAllFrom(_, _, _)
DropAllFrom(s, modules, tables) ==
    IF modules = <<>> THEN s
    ELSE IF Len(TablesOfModule(Head(modules))) > 0
    THEN DropAllFrom(
            RollbackOnError(
                Query(s, Head(modules),
                      DropTables(Without(tables, TablesOfModule(Head(modules))))),
                Head(modules)),
            Tail(modules), tables)
    ELSE DropAllFrom(s, Tail(modules), tables)

\* One DROP TABLE IF EXISTS of the same table on every connection
RECURSIVE DropOnEach(_, _, _)
DropOnEach(s, modules, table) ==
    IF modules = <<>> THEN s
    ELSE DropOnEach(
            RollbackOnError(Query(s, Head(modules), DropTables(<<table>>)), Head(modules)),
            Tail(modules), table)

\* if (foreignKeyChecksDisabled) restoreForeignKeyChecks(); without await
RestoreWithoutAwait(s) ==
    IF s.ret = "hang" THEN s
    ELSE IF s.flag THEN [s EXCEPT !.pending = @ + 1]
    ELSE s

RECURSIVE removeTablesRecursive(_, _, _)
\* A variant of the one-by-one removal that asks about no further table once
\* a table has been declined (C35 tells the two apart)
RemoveOneUntilDeclined(disabled, tables) ==
    IF disabled.answers = <<>> THEN [disabled EXCEPT !.ret = "hang"]
    ELSE IF Head(disabled.answers) = "y"
    THEN RestoreWithoutAwait(
            removeTablesRecursive(
                DropOnEach([disabled EXCEPT !.answers = Tail(@)],
                           Keys(moduleConnections), Head(tables)),
                Tail(tables), TRUE))
    ELSE RestoreWithoutAwait([disabled EXCEPT !.answers = Tail(@)])

\* one table of the one-by-one removal: the prompt, the drop, the rest
RemoveOne(disabled, tables) ==
    IF disabled.answers = <<>> THEN [disabled EXCEPT !.ret = "hang"]
    ELSE RestoreWithoutAwait(
            removeTablesRecursive(
                IF Head(disabled.answers) = "y"
                THEN DropOnEach([disabled EXCEPT !.answers = Tail(@)],
                                Keys(moduleConnections), Head(tables))
                ELSE [disabled EXCEPT !.answers = Tail(@)],
                Tail(tables), TRUE))

removeTablesRecursive(s, tables, mustConfirm) ==
    IF tables = <<>> THEN s
    ELSE IF ~mustConfirm
    THEN RestoreIfDisabled(
            DropAllFrom(DisableIfEnabled(s), Keys(moduleConnections), tables))
    ELSE RemoveOne(DisableIfEnabled(s), tables)

RECURSIVE removeTables(_, _, _)
RECURSIVE Chosen(_, _, _, _, _)
\* the answer to the menu has been read
Chosen(asked, answer, tables, skip, afterList) ==
    CASE answer = "all" -> removeTablesRecursive(asked, tables, FALSE)
      [] answer = "y" -> removeTablesRecursive(asked, tables, TRUE)
      [] answer = "none" -> asked
      [] answer = "list" /\ ~afterList ->
            IF asked.answers = <<>> THEN [asked EXCEPT !.ret = "hang"]
            ELSE Chosen([asked EXCEPT !.answers = Tail(@)], Head(asked.answers),
                        tables, skip, TRUE)
      [] OTHER -> removeTables(asked, tables, skip)

\* A variant of removeTables whose headless default is all (C16 tells the two
\* apart)
removeTablesHeadlessAll(s, tables, skip) ==
    IF tables = <<>> THEN s
    ELSE IF skip THEN Chosen(s, "all", tables, skip, FALSE)
    ELSE IF s.answers = <<>> THEN [s EXCEPT !.ret = "hang"]
    ELSE Chosen([s EXCEPT !.answers = Tail(@)], Head(s.answers), tables, skip, FALSE)

removeTables(s, tables, skip) ==
    IF tables = <<>> THEN s
    ELSE IF skip THEN Chosen(s, "none", tables, skip, FALSE)
    ELSE IF s.answers = <<>> THEN [s EXCEPT !.ret = "hang"]
    ELSE Chosen([s EXCEPT !.answers = Tail(@)], Head(s.answers), tables, skip, FALSE)

\* dataModel[getCaseDenormalizedString(tableName)]["module"] throws a TypeError
\* outside the try block when the name leads back to no entity
RECURSIVE CreateFrom(_, _)
Created(q, tables) == IF q.err THEN ReturnFalse(q) ELSE CreateFrom(q, Tail(tables))

CreateFrom(s, tables) ==
    IF tables = <<>> THEN [s EXCEPT !.ret = "true"]
    ELSE IF ~Has(dataModel, getCaseDenormalizedString(Head(tables))) THEN Throw(s)
    ELSE Created(
            Query(s, Get(dataModel, getCaseDenormalizedString(Head(tables))).module,
                  [Stmt("CREATE TABLE") EXCEPT !.table = Head(tables),
                                               !.col = getPrimaryKeyColumn]),
            tables)

createTables(s, tables) == CreateFrom(s, tables)

\* The column part of an ALTER TABLE statement.  The primary key column gets
\* the fixed BIGINT NOT NULL AUTO_INCREMENT FIRST, ADD PRIMARY KEY text.
getAlterColumnSql(columnName, columnDataModelObject, operation) ==
    IF columnName = getPrimaryKeyColumn
    THEN [Stmt(operation) EXCEPT !.col = columnName, !.def = [NoDef EXCEPT !.pk = TRUE]]
    ELSE [Stmt(operation) EXCEPT
            !.col = columnName,
            !.def = [type |-> columnDataModelObject.type.v,
                     len |-> IF columnDataModelObject.lengthOrValues # JNull
                             THEN JToString(columnDataModelObject.lengthOrValues)
                             ELSE JNull,
                     notNull |-> columnDataModelObject.allowNull = JBool(FALSE),
                     default |-> IF columnDataModelObject.default # JNull
                                 THEN JToString(columnDataModelObject.default)
                                 ELSE JNull,
                     pk |-> FALSE]]

\* BIGINT(20), the definition of a relationship column
BigInt20 ==
    [type |-> "BIGINT", len |-> JStr("20"), notNull |-> FALSE, default |-> JNull,
     pk |-> FALSE]

\* datetime DEFAULT CURRENT_TIMESTAMP, the repair of the locking column
LockingRepair ==
    [type |-> "datetime", len |-> JNull, notNull |-> FALSE,
     default |-> JStr(CURRENT_TIMESTAMP), pk |-> FALSE]

\* The definition the locking column is added with
LockingDefinition ==
    [type |-> JStr("datetime"), lengthOrValues |-> JNull,
     default |-> JStr(CURRENT_TIMESTAMP), allowNull |-> JBool(FALSE)]

ColumnOptions == <<"type", "lengthOrValues", "default", "allowNull">>

\* tableColumnsNormalized[Field][columnOption]
NormalizedOption(tableColumn, columnOption) ==
    CASE columnOption = "type" -> JStr(tableColumn.Type)
      [] columnOption = "lengthOrValues" -> tableColumn.Len
      [] columnOption = "default" -> tableColumn.Default
      [] columnOption = "allowNull" -> JBool(tableColumn.Null # "NO")

\* The data model's value of the option, its length as a string
DataModelOption(attribute, columnOption) ==
    IF columnOption = "lengthOrValues" /\ attribute.lengthOrValues # JNull
    THEN JToString(attribute.lengthOrValues)
    ELSE attribute[columnOption]

\* What the loop over the existing columns does with one column: the statement
\* it queues (at most one) and what it pushes on attributesProcessed and
\* relationshipsProcessed
Processed(stmts, attributes, relationships) ==
    [stmts |-> stmts, attributes |-> attributes, relationships |-> relationships]

ModifyTo(tableName, columnName, def) ==
    [Stmt("MODIFY COLUMN") EXCEPT !.table = tableName, !.col = columnName, !.def = def]

\* the column has the name of no attribute: a relationship column, or the
\* locking column
OtherColumn(tableName, tableColumn, columnName, columnAttributeName) ==
    IF columnName # getLockingConstraintColumn
    THEN Processed(IF SqlLower(tableColumn.Type) # "bigint"
                   THEN <<ModifyTo(tableName, columnName, BigInt20)>> ELSE <<>>,
                   <<columnAttributeName>>, <<columnName>>)
    ELSE Processed(IF SqlLower(tableColumn.Type) # "datetime"
                   THEN <<ModifyTo(tableName, columnName, LockingRepair)>> ELSE <<>>,
                   <<columnAttributeName, columnName>>, <<>>)

\* the column of an attribute: the first option that differs queues the
\* statement and ends the loop over the options
AttributeColumn(tableName, tableColumn, columnName, columnAttributeName, attribute) ==
    Processed(IF \E i \in 1..Len(ColumnOptions) :
                    DataModelOption(attribute, ColumnOptions[i])
                        # NormalizedOption(tableColumn, ColumnOptions[i])
              THEN <<[getAlterColumnSql(columnName, attribute, "MODIFY COLUMN")
                        EXCEPT !.table = tableName]>>
              ELSE <<>>,
              <<columnAttributeName>>, <<>>)

\* A variant of ExistingColumn that queues nothing for a column the table has:
\* with it a column outside the expected set stays (C6 tells the two apart)
ExistingColumnKept(entityName, tableName, tableColumn, columnName, columnAttributeName) ==
    Processed(<<>>, <<columnAttributeName>>,
              IF Includes(getEntityRelationshipColumns(entityName), columnName)
              THEN <<columnName>> ELSE <<>>)

ExistingColumn(entityName, tableName, tableColumn, columnName, columnAttributeName) ==
    IF columnAttributeName = getPrimaryKeyColumn
    THEN Processed(<<>>, <<columnAttributeName>>, <<>>)
    ELSE IF ~Includes(getEntityExpectedColumns(entityName), columnName)
    THEN Processed(<<[Stmt("DROP COLUMN") EXCEPT !.table = tableName,
                                                 !.col = columnName]>>,
                   <<columnAttributeName>>, <<>>)
    ELSE IF ~Has(Get(dataModel, entityName).attributes, columnAttributeName)
    THEN OtherColumn(tableName, tableColumn, columnName, columnAttributeName)
    ELSE AttributeColumn(tableName, tableColumn, columnName, columnAttributeName,
                         Get(Get(dataModel, entityName).attributes, columnAttributeName))

Both(one, rest) ==
    Processed(one.stmts \o rest.stmts, one.attributes \o rest.attributes,
              one.relationships \o rest.relationships)

RECURSIVE ExistingColumns(_, _, _)
ExistingColumns(entityName, tableName, tableColumns) ==
    IF tableColumns = <<>> THEN Processed(<<>>, <<>>, <<>>)
    ELSE Both(ExistingColumn(entityName, tableName, Head(tableColumns),
                             Head(tableColumns).Field,
                             getCaseDenormalizedString(Head(tableColumns).Field)),
              ExistingColumns(entityName, tableName, Tail(tableColumns)))

\* Object.keys(entityAttributes), the primary key and, when locking is
\* enforced, the locking column
EntityAttributesArray(e) ==
    Keys(e.attributes) \o <<getCaseDenormalizedString(getPrimaryKeyColumn)>>
    \o (IF LockingEnforced(e)
        THEN <<getCaseDenormalizedString(getLockingConstraintColumn)>>
        ELSE <<>>)

AddColumn(e, tableName, columnToCreate) ==
    [getAlterColumnSql(
        getCaseNormalizedString(columnToCreate),
        IF columnToCreate = getCaseDenormalizedString(getLockingConstraintColumn)
        THEN LockingDefinition
        ELSE Get(e.attributes, columnToCreate),
        "ADD COLUMN")
     EXCEPT !.table = tableName]

AddRelationshipColumn(tableName, columnName) ==
    [Stmt("ADD COLUMN") EXCEPT !.table = tableName, !.col = columnName, !.def = BigInt20]

\* The statements updateTables queues for one entity: those of the existing
\* columns, then the columns to create, then the relationship columns to create
QueuedFor(e, entityName, tableName, existing, columnsToCreate, relationshipColumnsToCreate) ==
    existing.stmts
    \o [i \in 1..Len(columnsToCreate) |-> AddColumn(e, tableName, columnsToCreate[i])]
    \o [i \in 1..Len(relationshipColumnsToCreate) |->
            AddRelationshipColumn(tableName, relationshipColumnsToCreate[i])]

ToCreate(e, entityName, tableName, existing) ==
    QueuedFor(e, entityName, tableName, existing,
              Without(EntityAttributesArray(e), existing.attributes),
              Without(getEntityRelationshipColumns(entityName), existing.relationships))

EntityColumnStatements(entityName, tableColumns) ==
    ToCreate(Get(dataModel, entityName), entityName, getCaseNormalizedString(entityName),
             ExistingColumns(entityName, getCaseNormalizedString(entityName),
                             tableColumns))

\* A variant of PushAll that puts an entity's statements in front of those
\* its module already has (C33 tells the two apart)
PushAllInFront(sqlQuery, moduleName, stmts) ==
    IF Has(sqlQuery, moduleName)
    THEN [i \in 1..Len(sqlQuery) |->
            IF sqlQuery[i].k = moduleName
            THEN [k |-> moduleName, v |-> stmts \o sqlQuery[i].v]
            ELSE sqlQuery[i]]
    ELSE Append(sqlQuery, [k |-> moduleName, v |-> stmts])

\* sqlQuery[moduleName].push(...): the statements of a module, modules in the
\* order in which the loop over the entities first met them
PushAll(sqlQuery, moduleName, stmts) ==
    IF Has(sqlQuery, moduleName)
    THEN [i \in 1..Len(sqlQuery) |->
            IF sqlQuery[i].k = moduleName
            THEN [k |-> moduleName, v |-> sqlQuery[i].v \o stmts]
            ELSE sqlQuery[i]]
    ELSE Append(sqlQuery, [k |-> moduleName, v |-> stmts])

\* The first loop of updateTables: SHOW FULL COLUMNS of every entity's table.
\* The query is outside any try block: its failure is an uncaught exception.
RECURSIVE ReadColumnsFrom(_, _, _)
ColumnsRead(q, entityNames, sqlQuery, moduleName, tableName) ==
    IF q.err THEN [state |-> Throw(q), sqlQuery |-> sqlQuery]
    ELSE ReadColumnsFrom(
            q, Tail(entityNames),
            PushAll(sqlQuery, moduleName,
                    EntityColumnStatements(Head(entityNames),
                                           q.db[SchemaOf(moduleName)][tableName].cols)))

ShowFullColumns(s, entityNames, sqlQuery, moduleName, tableName) ==
    ColumnsRead(Query(s, moduleName, [Stmt("SHOW FULL COLUMNS") EXCEPT !.table = tableName]),
                entityNames, sqlQuery, moduleName, tableName)

ReadColumnsFrom(s, entityNames, sqlQuery) ==
    IF entityNames = <<>> THEN [state |-> s, sqlQuery |-> sqlQuery]
    ELSE ShowFullColumns(s, entityNames, sqlQuery,
                         Get(dataModel, Head(entityNames)).module,
                         getCaseNormalizedString(Head(entityNames)))

\* connection.query of each statement of a sequence, until one fails
RECURSIVE ExecuteAll(_, _, _)
ExecutedOne(q, moduleName, stmts) ==
    IF q.err THEN ReturnFalse(q) ELSE ExecuteAll(q, moduleName, Tail(stmts))

ExecuteAll(s, moduleName, stmts) ==
    IF stmts = <<>> THEN s
    ELSE ExecutedOne(Query(s, moduleName, Head(stmts)), moduleName, stmts)

RECURSIVE ExecuteModules(_, _)
ExecutedModule(done, sqlQuery) ==
    IF done.ret = "false" THEN done ELSE ExecuteModules(done, Tail(sqlQuery))

ExecuteModules(s, sqlQuery) ==
    IF sqlQuery = <<>> THEN s
    ELSE ExecutedModule(ExecuteAll(s, Head(sqlQuery).k, Head(sqlQuery).v), sqlQuery)

\* if (foreignKeyChecksDisabled) await restoreForeignKeyChecks(); return true;
RestoreAndReturn(done) == IF done.ret # "true" THEN done ELSE RestoreIfDisabled(done)

ExecuteQueued(read) ==
    IF read.state.ret = "throw" THEN read.state
    ELSE RestoreAndReturn(ExecuteModules(read.state, read.sqlQuery))

updateTables(s) ==
    ExecuteQueued(ReadColumnsFrom([DisableIfEnabled(s) EXCEPT !.ret = "true"],
                                  Keys(dataModel), <<>>))

allowedIndexChoices ==
    <<<<"i", "n", "d", "e", "x">>, <<"u", "n", "i", "q", "u", "e">>,
      <<"s", "p", "a", "t", "i", "a", "l">>, <<"f", "u", "l", "l", "t", "e", "x", "t">>>>

allowedIndexTypes == <<<<"B", "T", "R", "E", "E">>, <<"H", "A", "S", "H">>>>

\* The loop over the index definitions of an entity: an index whose name is
\* missing from existingIndexes is added
RECURSIVE AddIndexesFrom(_, _, _, _, _)
IndexAdded(q, moduleName, tableName, indexes, existingIndexes) ==
    IF q.err THEN ReturnFalse(q)
    ELSE AddIndexesFrom(q, moduleName, tableName, Tail(indexes), existingIndexes)

AddIndex(s, moduleName, tableName, indexes, existingIndexes, indexObj, indexName) ==
    IF Includes(existingIndexes, indexName)
    THEN AddIndexesFrom(s, moduleName, tableName, Tail(indexes), existingIndexes)
    ELSE IF ~Includes(allowedIndexChoices, LowerCase(indexObj.indexChoice))
    THEN ReturnFalse(s)
    ELSE IndexAdded(
            Query(s, moduleName,
                  [Stmt("ADD INDEX") EXCEPT
                    !.table = tableName, !.name = indexName,
                    !.col = getCaseNormalizedString(indexObj.attribute)]),
            moduleName, tableName, indexes, existingIndexes)

AddIndexesFrom(s, moduleName, tableName, indexes, existingIndexes) ==
    IF indexes = <<>> THEN s
    ELSE AddIndex(s, moduleName, tableName, indexes, existingIndexes, Head(indexes),
                  getCaseNormalizedString(Head(indexes).indexName))

\* The loop over existingIndexes: all but the primary key's index and the
\* expected ones are dropped
RECURSIVE DropIndexesFrom(_, _, _, _, _)
IndexDropped(q, moduleName, tableName, existingIndexes, expectedIndexes) ==
    IF q.err THEN ReturnFalse(q)
    ELSE DropIndexesFrom(q, moduleName, tableName, Tail(existingIndexes), expectedIndexes)

\* A variant of DropIndexesFrom without the exemption of the primary key's
\* index (C10 tells the two apart)
DropUnexpectedIndexes(s, moduleName, tableName, existingIndexes, expectedIndexes) ==
    IF existingIndexes = <<>> \/ s.ret = "false" THEN s
    ELSE IF Includes(expectedIndexes, Head(existingIndexes))
    THEN DropIndexesFrom(s, moduleName, tableName, Tail(existingIndexes), expectedIndexes)
    ELSE IndexDropped(
            Query(s, moduleName,
                  [Stmt("DROP INDEX") EXCEPT !.table = tableName,
                                             !.name = Head(existingIndexes)]),
            moduleName, tableName, existingIndexes, expectedIndexes)

DropIndexesFrom(s, moduleName, tableName, existingIndexes, expectedIndexes) ==
    IF existingIndexes = <<>> \/ s.ret = "false" THEN s
    ELSE IF \/ LowerCase(Head(existingIndexes)) = LowerCase(PRIMARY)
            \/ Includes(expectedIndexes, Head(existingIndexes))
    THEN DropIndexesFrom(s, moduleName, tableName, Tail(existingIndexes), expectedIndexes)
    ELSE IndexDropped(
            Query(s, moduleName,
                  [Stmt("DROP INDEX") EXCEPT !.table = tableName,
                                             !.name = Head(existingIndexes)]),
            moduleName, tableName, existingIndexes, expectedIndexes)

\* A variant of ExpectedIndexes that leaves the model's own indexes out (C36
\* tells the two apart)
ExpectedConstraintIndexes(e, entityRelationshipConstraints) ==
    [i \in 1..Len(entityRelationshipConstraints) |->
        entityRelationshipConstraints[i].constraintName]

\* expectedIndexes: the names of constraints generated now, then the
\* normalized names of the model's indexes
ExpectedIndexes(e, entityRelationshipConstraints) ==
    [i \in 1..Len(entityRelationshipConstraints) |->
        entityRelationshipConstraints[i].constraintName]
    \o [i \in 1..Len(e.indexes) |-> getCaseNormalizedString(e.indexes[i].indexName)]

\* The loop of updateIndexes over the entities.  SHOW INDEX is outside any try
\* block: its failure is an uncaught exception.
RECURSIVE UpdateIndexesFrom(_, _)
EntityIndexesDone(dropped, entityNames) ==
    IF dropped.ret = "false" THEN dropped
    ELSE UpdateIndexesFrom(dropped, Tail(entityNames))

EntityIndexes(q, entityNames, e, moduleName, tableName, existingIndexes, entityRelationshipConstraints) ==
    EntityIndexesDone(
        DropIndexesFrom(
            AddIndexesFrom([q EXCEPT !.nextId = @ + Len(entityRelationshipConstraints)],
                           moduleName, tableName, e.indexes, existingIndexes),
            moduleName, tableName, existingIndexes,
            ExpectedIndexes(e, entityRelationshipConstraints)),
        entityNames)

IndexesRead(q, entityNames, e, moduleName, tableName) ==
    IF q.err THEN Throw(q)
    ELSE EntityIndexes(
            q, entityNames, e, moduleName, tableName,
            [i \in 1..Len(q.db[SchemaOf(moduleName)][tableName].idx) |->
                q.db[SchemaOf(moduleName)][tableName].idx[i].name],
            getEntityRelationshipConstraint(Head(entityNames), q.nextId))

ShowIndex(s, entityNames, e, tableName) ==
    IndexesRead(Query(s, e.module, [Stmt("SHOW INDEX") EXCEPT !.table = tableName]),
                entityNames, e, e.module, tableName)

UpdateIndexesFrom(s, entityNames) ==
    IF entityNames = <<>> THEN s
    ELSE ShowIndex(s, entityNames, Get(dataModel, Head(entityNames)),
                   getCaseNormalizedString(Head(entityNames)))

updateIndexes(s) ==
    RestoreAndReturn(
        UpdateIndexesFrom([DisableIfEnabled(s) EXCEPT !.ret = "true"], Keys(dataModel)))

\* A variant of DropForeignKeysFrom that drops no stored foreign key (C8 tells
\* the two apart)
KeepForeignKeys(s, moduleName, tableName, results, entityRelationshipConstraints) == s

\* The loop over the foreign keys information_schema lists for a table.  One
\* whose name is not among the expected names is dropped.  One whose name is
\* expected is pushed on existingForeignKeys, which is declared with let
\* further down: the push throws a ReferenceError that the surrounding catch
\* turns into return false.
RECURSIVE DropForeignKeysFrom(_, _, _, _, _)
ForeignKeyDropped(q, moduleName, tableName, results, entityRelationshipConstraints) ==
    IF q.err THEN ReturnFalse(q)
    ELSE DropForeignKeysFrom(q, moduleName, tableName, Tail(results),
                             entityRelationshipConstraints)

DropForeignKeysFrom(s, moduleName, tableName, results, entityRelationshipConstraints) ==
    IF results = <<>> \/ s.ret = "false" THEN s
    ELSE IF \E i \in 1..Len(entityRelationshipConstraints) :
                entityRelationshipConstraints[i].constraintName = Head(results).name
    THEN ReturnFalse(s)
    ELSE ForeignKeyDropped(
            Query(s, moduleName,
                  [Stmt("DROP FOREIGN KEY") EXCEPT !.table = tableName,
                                                   !.name = Head(results).name]),
            moduleName, tableName, results, entityRelationshipConstraints)

\* The loop over foreignKeysToCreate
RECURSIVE AddForeignKeysFrom(_, _, _, _, _)
ForeignKeyAdded(q, entityName, moduleName, tableName, foreignKeysToCreate) ==
    IF q.err THEN ReturnFalse(q)
    ELSE AddForeignKeysFrom(q, entityName, moduleName, tableName,
                            Tail(foreignKeysToCreate))

AddForeignKeysFrom(s, entityName, moduleName, tableName, foreignKeysToCreate) ==
    IF foreignKeysToCreate = <<>> \/ s.ret = "false" THEN s
    ELSE ForeignKeyAdded(
            Query(s, moduleName,
                  [Stmt("ADD FOREIGN KEY") EXCEPT
                    !.table = tableName,
                    !.name = Head(foreignKeysToCreate).constraintName,
                    !.col = Head(foreignKeysToCreate).columnName,
                    !.ref = getCaseNormalizedString(
                                getEntityRelationshipFromRelationshipColumn(
                                    entityName, Head(foreignKeysToCreate).columnName)),
                    !.refCol = getPrimaryKeyColumn]),
            entityName, moduleName, tableName, foreignKeysToCreate)

RECURSIVE UpdateRelationshipsFrom(_, _, _)
EntityRelationshipsDone(done, entityNames, dropOnly) ==
    IF done.ret = "false" THEN done
    ELSE UpdateRelationshipsFrom(done, Tail(entityNames), dropOnly)

\* the rows of information_schema.REFERENTIAL_CONSTRAINTS for the table
ReferentialConstraints(schema, tableName) ==
    IF tableName \in DOMAIN schema THEN schema[tableName].fks ELSE <<>>

\* existingForeignKeys is empty when foreignKeysToCreate is computed (every
\* push on it has thrown), so every expected constraint is created
ConstraintsRead(q, entityNames, dropOnly, moduleName, tableName, entityRelationshipConstraints) ==
    IF q.err THEN ReturnFalse(q)
    ELSE EntityRelationshipsDone(
            IF dropOnly
            THEN DropForeignKeysFrom(
                    q, moduleName, tableName,
                    ReferentialConstraints(q.db[SchemaOf(moduleName)], tableName),
                    entityRelationshipConstraints)
            ELSE AddForeignKeysFrom(
                    DropForeignKeysFrom(
                        q, moduleName, tableName,
                        ReferentialConstraints(q.db[SchemaOf(moduleName)], tableName),
                        entityRelationshipConstraints),
                    Head(entityNames), moduleName, tableName,
                    entityRelationshipConstraints),
            entityNames, dropOnly)

SelectConstraints(s, entityNames, dropOnly, moduleName, tableName, entityRelationshipConstraints) ==
    ConstraintsRead(
        Query([s EXCEPT !.nextId = @ + Len(entityRelationshipConstraints)], moduleName,
              [Stmt("SELECT REFERENTIAL_CONSTRAINTS") EXCEPT !.table = tableName]),
        entityNames, dropOnly, moduleName, tableName, entityRelationshipConstraints)

UpdateRelationshipsFrom(s, entityNames, dropOnly) ==
    IF entityNames = <<>> THEN s
    ELSE SelectConstraints(
            s, entityNames, dropOnly, Get(dataModel, Head(entityNames)).module,
            getCaseNormalizedString(Head(entityNames)),
            getEntityRelationshipConstraint(Head(entityNames), s.nextId))

updateRelationships(s, dropOnly) ==
    RestoreAndReturn(
        UpdateRelationshipsFrom([DisableIfEnabled(s) EXCEPT !.ret = "true"],
                                Keys(dataModel), dropOnly))

\* ------------------------------------------------------------ optionValidation.js
\* A JavaScript object read from JSON is [t |-> "object", v |-> its entries in
\* key order]; the entries of an entity definition, an attribute definition,
\* an index definition and the database configuration are the fields of a
\* record, whose DOMAIN is Object.keys.

\* String.prototype.toUpperCase
UpperCase(s) == [i \in 1..Len(s) |-> ToUpper(s[i])]

\* isValidObject of dx-utilities
isValidObject(x) == x.t = "object"

\* a.length === b.length and each holds every value of the other
checkArraysAreEqual(a, b) ==
    /\ Len(a) = Len(b)
    /\ \A i \in 1..Len(a) : Includes(b, a[i])
    /\ \A i \in 1..Len(b) : Includes(a, b[i])

expectedAttributeDefinition == <<"name", "type", "lengthOrValues", "default", "allowNull">>

expectedIndexDefinition == <<"attribute", "indexName", "indexChoice", "type">>

expectedDatabaseConfig ==
    <<"host", "user", "password", "database", "port", "ssl", "moduleSchemaMapping">>

\* Object.keys of a record, in some order (the comparison ignores the order)
RECURSIVE SeqOf(_)
SeqOf(S) ==
    IF S = {} THEN <<>>
    ELSE LET x == CHOOSE y \in S : TRUE IN <<x>> \o SeqOf(S \ {x})

KeysOf(record) == SeqOf(DOMAIN record)

validateAttribute(attributeDefinition) ==
    checkArraysAreEqual(
        KeysOf(attributeDefinition),
        expectedAttributeDefinition)

\* "true", "false", or "throw": two of the error messages read the variable
\* indexName, which is declared nowhere
validateIndex(indexDefinition) ==
    IF ~checkArraysAreEqual(KeysOf(indexDefinition),
                            expectedIndexDefinition)
    THEN "throw"
    ELSE IF ~Includes(allowedIndexChoices, LowerCase(indexDefinition.indexChoice))
    THEN "false"
    ELSE IF ~Includes(allowedIndexTypes, UpperCase(indexDefinition.type))
    THEN "throw"
    ELSE "true"

\* the related entity is a key of the model (the roles are always an array here)
validateRelationship(model, relationshipName) == Has(model, relationshipName)

defaultOptions ==
    <<[k |-> "enforceLockingConstraints", v |-> JBool(TRUE)],
      [k |-> "isAuditEnabled", v |-> JBool(TRUE)]>>

\* The entity definition after the three defaults have been filled in
WithDefaults(e) ==
    [module |-> e.module,
     attributes |-> e.attributes,
     indexes |-> IF "indexes" \in DOMAIN e THEN e.indexes ELSE <<>>,
     relationships |-> IF "relationships" \in DOMAIN e THEN e.relationships ELSE <<>>,
     options |-> IF "options" \in DOMAIN e THEN e.options ELSE defaultOptions]

\* The verdict on one entity: "true", "false" or "throw".  Attributes,
\* relationships and options are objects in every definition read here.
validateEntity(model, entityDefinition) ==
    IF "module" \notin DOMAIN entityDefinition THEN "false"
    ELSE IF "attributes" \notin DOMAIN entityDefinition THEN "false"
    ELSE LET e == WithDefaults(entityDefinition)
             indexVerdicts == [i \in 1..Len(e.indexes) |-> validateIndex(e.indexes[i])]
             bad == {i \in 1..Len(e.indexes) : indexVerdicts[i] # "true"}
         IN  IF Len(e.attributes) = 0 THEN "false"
             ELSE IF \E i \in 1..Len(e.attributes) : ~validateAttribute(e.attributes[i].v)
             THEN "false"
             ELSE IF bad # {}
             THEN indexVerdicts[CHOOSE i \in bad : \A j \in bad : i <= j]
             ELSE IF \E i \in 1..Len(e.relationships) :
                        ~validateRelationship(model, e.relationships[i].k)
             THEN "false"
             ELSE "true"

RECURSIVE ValidateFrom(_, _)
ValidateFrom(model, i) ==
    IF i > Len(model) THEN "true"
    ELSE LET verdict == validateEntity(model, model[i].v)
         IN  IF verdict # "true" THEN verdict ELSE ValidateFrom(model, i + 1)

\* [ret |-> "true" | "false" | "throw", model |-> the model with its defaults]
validateDataModel(dataModelToCheck) ==
    IF ~isValidObject(dataModelToCheck) THEN [ret |-> "false", model |-> <<>>]
    ELSE LET model == dataModelToCheck.v
             verdict == ValidateFrom(model, 1)
         IN  [ret |-> verdict,
              model |-> IF verdict = "true"
                        THEN [i \in 1..Len(model) |->
                                [k |-> model[i].k, v |-> WithDefaults(model[i].v)]]
                        ELSE <<>>]

validateDataBaseConfig(config) ==
    checkArraysAreEqual(KeysOf(config),
                        expectedDatabaseConfig)

\* ------------------------------------------------------------ init and the integrity check

\* mysql.createConnection for each entry of moduleSchemaMapping, in order;
\* connection number failAt is refused
RECURSIVE ConnectFrom(_, _, _, _)
ConnectFrom(moduleSchemaMapping, i, failAt, connections) ==
    IF i > Len(moduleSchemaMapping) THEN [ret |-> "true", connections |-> connections]
    ELSE IF i = failAt THEN [ret |-> "false", connections |-> connections]
    ELSE LET moduleSchemaMap == moduleSchemaMapping[i]
         IN  ConnectFrom(moduleSchemaMapping, i + 1, failAt,
                         IF Has(connections, moduleSchemaMap.moduleName)
                         THEN [j \in 1..Len(connections) |->
                                IF connections[j].k = moduleSchemaMap.moduleName
                                THEN [k |-> moduleSchemaMap.moduleName,
                                      v |-> moduleSchemaMap.schemaName]
                                ELSE connections[j]]
                         ELSE Append(connections, [k |-> moduleSchemaMap.moduleName,
                                                   v |-> moduleSchemaMap.schemaName]))

\* What init returns and what it leaves in dataModel, databaseConfig and
\* moduleConnections
Initialised(ret, model, config, connections) ==
    [ret |-> ret, dataModel |-> model, databaseConfig |-> config,
     moduleConnections |-> connections]

Connected(validated, opts, connected) ==
    Initialised(connected.ret, validated.model, opts.databaseConfig,
                connected.connections)

\* init(options) after validateDataModel.  databaseCaseImplementation is
\* checked against DB_IMPLEMENTATION_TYPES and assigned nowhere.
Validated(validated, opts, failAt) ==
    IF validated.ret # "true"
    THEN Initialised(validated.ret, <<>>, databaseConfig, <<>>)
    ELSE IF "databaseConfig" \notin DOMAIN opts
    THEN Initialised("false", validated.model, databaseConfig, <<>>)
    ELSE IF ~validateDataBaseConfig(opts.databaseConfig)
    THEN Initialised("false", validated.model, [valid |-> FALSE], <<>>)
    ELSE IF /\ "databaseCaseImplementation" \in DOMAIN opts
            /\ opts.databaseCaseImplementation \notin DB_IMPLEMENTATION_TYPES
    THEN Initialised("false", validated.model, opts.databaseConfig, <<>>)
    ELSE Connected(validated, opts,
                   ConnectFrom(opts.databaseConfig.moduleSchemaMapping, 1, failAt, <<>>))

init(opts, failAt) == Validated(validateDataModel(opts.dataModel), opts, failAt)

\* SHOW ENGINES on every connection: the check fails on an InnoDB row whose
\* Support is not DEFAULT, and passes a connection that lists no InnoDB row
RECURSIVE CheckEnginesFrom(_, _)
EnginesRead(q, modules) ==
    IF q.err THEN ReturnFalse(Rollback(q, Head(modules)))
    ELSE IF engines[Head(modules)] \notin {"DEFAULT", "absent"} THEN ReturnFalse(q)
    ELSE CheckEnginesFrom(q, Tail(modules))

CheckEnginesFrom(s, modules) ==
    IF modules = <<>> THEN s
    ELSE EnginesRead(Query(s, Head(modules), Stmt("SHOW ENGINES")), modules)

\* A variant of checkDataModelIntegrity that disables the foreign key checks
\* before it probes (C13 tells the two apart)
IntegrityAfterDisable(s) ==
    IF \E i \in 1..Len(dataModel) : ~Has(moduleConnections, dataModel[i].v.module)
    THEN ReturnFalse(disableForeignKeyChecks(s))
    ELSE CheckEnginesFrom(disableForeignKeyChecks(s), Keys(moduleConnections))

checkDataModelIntegrity(s) ==
    IF \E i \in 1..Len(dataModel) : ~Has(moduleConnections, dataModel[i].v.module)
    THEN ReturnFalse(s)
    ELSE CheckEnginesFrom(s, Keys(moduleConnections))

\* ------------------------------------------------------------ inputs
\* The models, configurations and databases the runs start from.

Modules == {"main", "aux"}

Schemas == {"s1", "s2"}

EntityOne == <<"a", "B">>

EntityTwo == <<"a">>

AttributeOne == <<"f", "N">>

AttributeTwo == <<"d">>

IndexOne == <<"i", "X">>

RoleNames == <<<<"r">>, <<"s">>, <<"t">>, <<"u">>>>

\* with the related entity "a", the role "bR" gives the column a_b_r, the
\* column of the related entity "aB" and the role "r"
CollidingRole == <<"b", "R">>

OrphanNames == <<<<"x">>, <<"y">>, <<"w">>, <<"v">>>>

StaleName == <<"o", "l", "d">>

ExtraColumn == <<"z">>

AttributeDefinitions ==
    [text |-> [name |-> JStr("n"), type |-> JStr("varchar"), lengthOrValues |-> JNum("50"),
               default |-> JNull, allowNull |-> JBool(TRUE)],
     number |-> [name |-> JStr("n"), type |-> JStr("int"), lengthOrValues |-> JNum("11"),
                 default |-> JNum("0"), allowNull |-> JBool(FALSE)],
     time |-> [name |-> JStr("n"), type |-> JStr("datetime"), lengthOrValues |-> JNull,
               default |-> JNull, allowNull |-> JBool(TRUE)],
     unnamed |-> [type |-> JStr("varchar"), lengthOrValues |-> JNum("50"),
                  default |-> JNull, allowNull |-> JBool(TRUE)]]

IndexDefinitions ==
    [plain |-> [attribute |-> AttributeOne, indexName |-> IndexOne,
                indexChoice |-> <<"i", "n", "d", "e", "x">>,
                type |-> <<"B", "T", "R", "E", "E">>],
     badChoice |-> [attribute |-> AttributeOne, indexName |-> IndexOne,
                    indexChoice |-> <<"k", "e", "y">>,
                    type |-> <<"B", "T", "R", "E", "E">>],
     badType |-> [attribute |-> AttributeOne, indexName |-> IndexOne,
                  indexChoice |-> <<"i", "n", "d", "e", "x">>,
                  type |-> <<"R", "T", "R", "E", "E">>],
     badKeys |-> [attribute |-> AttributeOne, indexName |-> IndexOne,
                  indexChoice |-> <<"i", "n", "d", "e", "x">>]]

LockingOptions ==
    [off |-> <<[k |-> "enforceLockingConstraints", v |-> JBool(FALSE)]>>,
     on |-> <<[k |-> "enforceLockingConstraints", v |-> JBool(TRUE)]>>,
     empty |-> <<>>]

\* The first entity: one attribute and one index; options are left out of the
\* definition altogether when locking = "default"
EntityOneDefinition(attribute, index, locking) ==
    LET base == [module |-> "main",
                 attributes |-> <<[k |-> AttributeOne, v |-> AttributeDefinitions[attribute]]>>,
                 indexes |-> <<IndexDefinitions[index]>>]
    IN  IF locking = "default" THEN base
        ELSE [x \in DOMAIN base \cup {"options"} |->
                IF x = "options" THEN LockingOptions[locking] ELSE base[x]]

\* The second entity: nRoles relationships to the first entity and, when
\* collide, one to itself whose column has the name of the first of them
EntityTwoDefinition(moduleName, nRoles, collide) ==
    [module |-> moduleName,
     attributes |-> <<[k |-> AttributeTwo, v |-> AttributeDefinitions.time]>>,
     relationships |->
        <<[k |-> EntityOne, v |-> SubSeq(RoleNames, 1, nRoles)]>>
        \o (IF collide THEN <<[k |-> EntityTwo, v |-> <<CollidingRole>>]>> ELSE <<>>),
     options |-> LockingOptions.off]

Model(entities) == [t |-> "object", v |-> entities]

DatabaseConfig(moduleSchemaMapping) ==
    [host |-> "localhost", user |-> "dx_user", password |-> "secret",
     database |-> "s1", port |-> 3306, ssl |-> FALSE,
     moduleSchemaMapping |-> moduleSchemaMapping]

OneModule == <<[moduleName |-> "main", schemaName |-> "s1"]>>

TwoModules ==
    <<[moduleName |-> "main", schemaName |-> "s1"],
      [moduleName |-> "aux", schemaName |-> "s2"]>>

\* The value of the module-level variable databaseConfig before init
DefaultDatabaseConfig ==
    [host |-> "localhost", user |-> "dx_user", password |-> "secret", port |-> 3307,
     ssl |-> FALSE,
     moduleSchemaMapping |-> <<[moduleName |-> "main", schemaName |-> "dxdbsynctest"]>>]

\* A table as a column definition list and its indexes and foreign keys
TableOf(columns, idx, fks) ==
    [cols |-> <<ColumnOf(<<"i", "d">>, [NoDef EXCEPT !.pk = TRUE])>> \o columns,
     idx |-> <<[name |-> PRIMARY, col |-> <<"i", "d">>, auto |-> FALSE]>> \o idx,
     fks |-> fks]

VarcharColumn ==
    [Field |-> <<"f", "_", "n">>, Type |-> "varchar", Len |-> JStr("50"), Null |-> "YES",
     Default |-> JNull]

\* The first entity's table as an earlier run with locking left it ("ok"), or
\* with a column of another type, a column and an index no model knows
\* ("drift"), or with a locking column whose type ("lockDate") or whose default
\* and nullability ("lockNull") somebody changed, or with the model's index
\* name on another column, one the model keeps ("indexMoved") or one it no
\* longer has ("indexStale")
LockingColumnAs(type, null, default) ==
    [Field |-> <<"l", "a", "s", "t", "_", "u", "p", "d", "a", "t", "e", "d">>,
     Type |-> type, Len |-> JNull, Null |-> null, Default |-> default]

TableOneVariants ==
    [ok |-> TableOf(<<VarcharColumn,
                      [Field |-> <<"l", "a", "s", "t", "_", "u", "p", "d", "a", "t", "e", "d">>,
                       Type |-> "datetime", Len |-> JNull, Null |-> "NO",
                       Default |-> JStr(CURRENT_TIMESTAMP)]>>,
                    <<[name |-> <<"i", "_", "x">>, col |-> <<"f", "_", "n">>,
                       auto |-> FALSE]>>, <<>>),
     lockDate |-> TableOf(<<VarcharColumn, LockingColumnAs("date", "YES", JNull)>>,
                          <<[name |-> <<"i", "_", "x">>, col |-> <<"f", "_", "n">>,
                             auto |-> FALSE]>>, <<>>),
     lockNull |-> TableOf(<<VarcharColumn, LockingColumnAs("datetime", "YES", JNull)>>,
                          <<[name |-> <<"i", "_", "x">>, col |-> <<"f", "_", "n">>,
                             auto |-> FALSE]>>, <<>>),
     indexMoved |-> TableOf(<<VarcharColumn>>,
                            <<[name |-> <<"i", "_", "x">>, col |-> <<"i", "d">>,
                               auto |-> FALSE]>>, <<>>),
     indexStale |-> TableOf(<<VarcharColumn,
                              [Field |-> ExtraColumn, Type |-> "int", Len |-> JStr("11"),
                               Null |-> "YES", Default |-> JNull]>>,
                            <<[name |-> <<"i", "_", "x">>, col |-> ExtraColumn,
                               auto |-> FALSE]>>, <<>>),
     drift |-> TableOf(<<[VarcharColumn EXCEPT !.Type = "text", !.Len = JNull],
                         [Field |-> ExtraColumn, Type |-> "int", Len |-> JStr("11"),
                          Null |-> "YES", Default |-> JNull]>>,
                       <<[name |-> StaleName, col |-> ExtraColumn, auto |-> FALSE]>>, <<>>)]

\* The second entity's table as an earlier run left it: one foreign key under
\* an old name, and the index MySQL created for it
TableTwoOld ==
    TableOf(<<[Field |-> <<"d">>, Type |-> "datetime", Len |-> JNull, Null |-> "YES",
               Default |-> JNull],
              [Field |-> <<"a", "_", "b", "_", "r">>, Type |-> "bigint", Len |-> JStr("20"),
               Null |-> "YES", Default |-> JNull]>>,
            <<[name |-> StaleName, col |-> <<"a", "_", "b", "_", "r">>, auto |-> TRUE]>>,
            <<[name |-> StaleName, col |-> <<"a", "_", "b", "_", "r">>,
               ref |-> <<"a", "_", "b">>, refCol |-> <<"i", "d">>,
               rule |-> "ON DELETE SET NULL ON UPDATE CASCADE"]>>)

\* A schema from the tables given as pairs <<name, table>>
SchemaWith(pairs) ==
    [t \in {pairs[i][1] : i \in 1..Len(pairs)} |->
        pairs[CHOOSE i \in 1..Len(pairs) : pairs[i][1] = t][2]]

OrphanTables(n) ==
    [i \in 1..n |-> <<OrphanNames[i], TableOf(<<>>, <<>>, <<>>)>>]

TableOne(variant) ==
    IF variant = "absent" THEN <<>>
    ELSE <<<<(<<"a", "_", "b">>), TableOneVariants[variant]>>>>

TableTwo(variant) ==
    IF variant = "absent" THEN <<>> ELSE <<<<EntityTwo, TableTwoOld>>>>

EntryOne(attribute, index, locking) ==
    [k |-> EntityOne, v |-> EntityOneDefinition(attribute, index, locking)]

EntryTwo(moduleName, nRoles, collide) ==
    [k |-> EntityTwo, v |-> EntityTwoDefinition(moduleName, nRoles, collide)]

DefaultEngines == [m \in Modules |-> "DEFAULT"]

\* The state of a new process that is about to call syncDatabase(opts, skip)
\* against the server d
Fresh(opts, skip, d, e) ==
    /\ options = opts
    /\ skipUserPrompts = skip
    /\ answers = <<>>
    /\ databaseCaseImplementation = SNAKE_CASE
    /\ dataModel = <<>>
    /\ databaseConfig = DefaultDatabaseConfig
    /\ moduleConnections = <<>>
    /\ foreignKeyChecksDisabled = FALSE
    /\ existingTables = <<>>
    /\ tablesToCreate = <<>>
    /\ tablesToRemove = <<>>
    /\ pc = "init"
    /\ result = "running"
    /\ db = d
    /\ engines = e
    /\ fkc = [m \in Modules |-> 1]
    /\ txn = [m \in Modules |-> FALSE]
    /\ nextId = 0
    /\ log = <<>>
    /\ run = 1

\* One entity in one module: its attribute, its locking option and the state
\* of its table vary
InitColumns ==
    \E attribute \in {"text", "number"}, locking \in {"default", "off", "empty"},
       one \in {"absent", "ok", "drift", "lockDate", "lockNull", "indexMoved",
                "indexStale"} :
        Fresh([dataModel |-> Model(<<EntryOne(attribute, "plain", locking)>>),
               databaseConfig |-> DatabaseConfig(OneModule)],
              TRUE,
              [s1 |-> SchemaWith(TableOne(one)), s2 |-> SchemaWith(<<>>)],
              DefaultEngines)

\* Two entities, the second with relationships to the first, in the same or
\* in another module
InitRelationships ==
    \E nRoles \in 0..MaxRoles, moduleName \in Modules, collide \in BOOLEAN,
       one \in {"absent", "ok"}, two \in {"absent", "old"} :
        Fresh([dataModel |->
                    Model(<<EntryOne("text", "plain", "on"),
                            EntryTwo(moduleName, nRoles, collide)>>),
               databaseConfig |-> DatabaseConfig(TwoModules)],
              TRUE,
              [s1 |-> SchemaWith(TableOne(one)
                                 \o (IF moduleName = "main" THEN TableTwo(two) ELSE <<>>)),
               s2 |-> SchemaWith(IF moduleName = "aux" THEN TableTwo(two) ELSE <<>>)],
              DefaultEngines)

\* Tables no entity stands for, in the schema of the first or of the second
\* module, with the model empty or not and the prompts on or off
InitOrphans ==
    \E n \in 1..MaxOrphans, schema \in Schemas, two \in BOOLEAN, empty \in BOOLEAN,
       one \in {"absent", "ok"}, skip \in BOOLEAN :
        /\ schema = "s2" => two
        /\ empty => one = "absent"
        /\ Fresh([dataModel |->
                    Model(IF empty THEN <<>>
                          ELSE <<EntryOne("text", "plain", "on"),
                                 EntryTwo("main", 1, FALSE)>>),
                  databaseConfig |->
                    DatabaseConfig(IF two THEN TwoModules ELSE OneModule)],
                 skip,
                 [s1 |-> SchemaWith(TableOne(one)
                                    \o (IF schema = "s1" THEN OrphanTables(n) ELSE <<>>)),
                  s2 |-> SchemaWith(IF schema = "s2" THEN OrphanTables(n) ELSE <<>>)],
                 DefaultEngines)

\* Options that validation or the integrity check has to turn down, and two
\* that they let through
OddOptions ==
    LET config == DatabaseConfig(OneModule)
        good == Model(<<EntryOne("text", "plain", "on")>>)
    IN  {[dataModel |-> Model(<<EntryOne("unnamed", "plain", "on")>>),
          databaseConfig |-> config],
         [dataModel |-> Model(<<EntryOne("text", "badChoice", "on")>>),
          databaseConfig |-> config],
         [dataModel |-> Model(<<EntryOne("text", "badType", "on")>>),
          databaseConfig |-> config],
         [dataModel |-> Model(<<EntryOne("text", "badKeys", "on")>>),
          databaseConfig |-> config],
         [dataModel |-> Model(<<EntryTwo("main", 1, FALSE)>>), databaseConfig |-> config],
         [dataModel |-> Model(<<[k |-> EntityOne, v |-> [module |-> "main"]]>>),
          databaseConfig |-> config],
         [dataModel |-> Model(<<EntryTwo("aux", 0, FALSE)>>), databaseConfig |-> config],
         [dataModel |-> JNull, databaseConfig |-> config],
         [dataModel |-> good],
         [dataModel |-> good, databaseConfig |-> DefaultDatabaseConfig],
         [dataModel |-> good, databaseConfig |-> config,
          databaseCaseImplementation |-> "kebabcase"],
         [dataModel |-> good, databaseConfig |-> config,
          databaseCaseImplementation |-> PASCAL_CASE]}

InitOdd ==
    \/ \E opts \in OddOptions :
        Fresh(opts, TRUE, [s1 |-> SchemaWith(<<>>), s2 |-> SchemaWith(<<>>)],
              DefaultEngines)
    \/ \E support \in {"YES", "absent"} :
        Fresh([dataModel |-> Model(<<EntryOne("text", "plain", "on")>>),
               databaseConfig |-> DatabaseConfig(OneModule)],
              TRUE, [s1 |-> SchemaWith(<<>>), s2 |-> SchemaWith(<<>>)],
              [DefaultEngines EXCEPT !["main"] = support])

\* Two modules; the table of the first entity is missing from the schema of
\* its own module, and the schema of the other module holds a table of that
\* name
InitNamesake ==
    \E skip \in BOOLEAN :
        Fresh([dataModel |-> Model(<<EntryOne("text", "plain", "on")>>),
               databaseConfig |-> DatabaseConfig(TwoModules)],
              skip,
              [s1 |-> SchemaWith(<<>>), s2 |-> SchemaWith(TableOne("ok"))],
              DefaultEngines)

Init == InitColumns \/ InitRelationships \/ InitOrphans \/ InitOdd \/ InitNamesake

\* ------------------------------------------------------------ syncDatabase, step by step
\* One action per step of syncDatabase.  In each, statement number f of the
\* step fails with a driver error (f = 0: none does).

\* The statement that may fail with a driver error in the step: none once a
\* statement of the run has failed (one fault per run), else none or one of
\* the first MaxFailAt
FailPoints ==
    IF \E i \in 1..Len(log) : ~log[i].ok THEN {0} ELSE 0..MaxFailAt

\* What the step leaves in the server, the sessions and the module variables
Leave(s) ==
    /\ db' = s.db
    /\ fkc' = s.fkc
    /\ txn' = s.txn
    /\ foreignKeyChecksDisabled' = s.flag
    /\ nextId' = s.nextId
    /\ log' = s.log

Goto(label) == pc' = label /\ result' = result

\* The run is over; how: "success", "exit1", "createFailed" (process.exit(0)
\* after createTables gave false), "false" (syncDatabase returned false) or
\* "throw" (an exception left syncDatabase)
End(how) == pc' = "done" /\ result' = how

\* How syncDatabase goes on after a function that gave true, gave false
\* (restore the checks if the flag is set, then end as failed) or threw
Outcome(s, next, failed) ==
    CASE s.ret = "true" -> Leave(s) /\ (IF next = "done" THEN End("success") ELSE Goto(next))
      [] s.ret = "throw" -> Leave(s) /\ End("throw")
      [] OTHER -> Leave(RestoreIfDisabled(s)) /\ End(failed)

Initialise(r) ==
    /\ dataModel' = r.dataModel
    /\ databaseConfig' = r.databaseConfig
    /\ moduleConnections' = r.moduleConnections
    /\ CASE r.ret = "true" -> Goto("integrity")
         [] r.ret = "throw" -> End("throw")
         [] OTHER -> End("exit1")

InitStep ==
    /\ pc = "init"
    /\ \E f \in FailPoints : Initialise(init(options, f))
    /\ UNCHANGED <<options, skipUserPrompts, answers, databaseCaseImplementation,
                   foreignKeyChecksDisabled, existingTables, tablesToCreate,
                   tablesToRemove, db, engines, fkc, txn, nextId, log, run>>

Checked(s) ==
    /\ Leave(s)
    /\ IF s.ret = "true" THEN Goto("disable") ELSE End("exit1")

IntegrityStep ==
    /\ pc = "integrity"
    /\ \E f \in FailPoints : Checked(checkDataModelIntegrity(Start("integrity", f)))
    /\ UNCHANGED <<options, skipUserPrompts, answers, databaseCaseImplementation,
                   dataModel, databaseConfig, moduleConnections, existingTables,
                   tablesToCreate, tablesToRemove, engines, run>>

\* await disableForeignKeyChecks(); what it returns is not looked at
DisableStep ==
    /\ pc = "disable"
    /\ \E f \in FailPoints : Leave(disableForeignKeyChecks(Start("disable", f)))
    /\ Goto("introspect")
    /\ UNCHANGED <<options, skipUserPrompts, answers, databaseCaseImplementation,
                   dataModel, databaseConfig, moduleConnections, existingTables,
                   tablesToCreate, tablesToRemove, engines, run>>

\* A variant of expectedTableNames that leaves the names as the model spells
\* them (C27 tells the two apart)
expectedTableNamesAsSpelled ==
    [i \in 1..Len(dataModel) |-> dataModel[i].k]

expectedTableNames ==
    [i \in 1..Len(dataModel) |-> getCaseNormalizedString(dataModel[i].k)]

Introspected(r) ==
    IF r.state.ret = "exit1"
    THEN /\ Leave(r.state)
         /\ End("exit1")
         /\ UNCHANGED <<existingTables, tablesToCreate, tablesToRemove>>
    ELSE /\ existingTables' = r.tables
         /\ tablesToCreate' = Without(expectedTableNames, r.tables)
         /\ tablesToRemove' = Without(r.tables, expectedTableNames)
         /\ Leave(beginTransactionForAllModuleConnections(r.state))
         /\ Goto("remove")

\* getDatabaseTables, the two set differences and the begin of the transactions
IntrospectStep ==
    /\ pc = "introspect"
    /\ \E f \in FailPoints : Introspected(getDatabaseTables(Start("introspect", f)))
    /\ UNCHANGED <<options, skipUserPrompts, answers, databaseCaseImplementation,
                   dataModel, databaseConfig, moduleConnections, engines, run>>

\* What the operator may type at the prompts of removeTables
Scripts ==
    {<<>>, <<"all">>, <<"none">>, <<"list", "all">>, <<"list", "none">>,
     <<"again", "none">>}
    \cup {<<"y">> \o yn :
            yn \in UNION {[1..n -> {"y", "n"}] : n \in 0..(Len(tablesToRemove) + 1)}}

\* The operator has typed exactly script; the restores that one-by-one
\* removal started without await complete before the awaited restore of
\* syncDatabase does
Removed(s, script) ==
    /\ s.ret # "hang"
    /\ s.answers = <<>>
    /\ answers' = script
    /\ Leave(IF s.flag THEN restoreForeignKeyChecks(FinishPending(s))
             ELSE FinishPending(s))

\* removeTables and the restore that follows it in syncDatabase
RemoveStep ==
    /\ pc = "remove"
    /\ \E f \in FailPoints, script \in Scripts :
        Removed(removeTables([Start("remove", f) EXCEPT !.answers = script],
                             tablesToRemove, skipUserPrompts),
                script)
    /\ Goto("create")
    /\ UNCHANGED <<options, skipUserPrompts, databaseCaseImplementation, dataModel,
                   databaseConfig, moduleConnections, existingTables, tablesToCreate,
                   tablesToRemove, engines, run>>

CreateStep ==
    /\ pc = "create"
    /\ \E f \in FailPoints :
        Outcome(createTables(Start("create", f), tablesToCreate), "dropRelationships",
                "createFailed")
    /\ UNCHANGED <<options, skipUserPrompts, answers, databaseCaseImplementation,
                   dataModel, databaseConfig, moduleConnections, existingTables,
                   tablesToCreate, tablesToRemove, engines, run>>

\* updateRelationships(true)
DropRelationshipsStep ==
    /\ pc = "dropRelationships"
    /\ \E f \in FailPoints :
        Outcome(updateRelationships(Start("dropRelationships", f), TRUE), "tables",
                "false")
    /\ UNCHANGED <<options, skipUserPrompts, answers, databaseCaseImplementation,
                   dataModel, databaseConfig, moduleConnections, existingTables,
                   tablesToCreate, tablesToRemove, engines, run>>

UpdateTablesStep ==
    /\ pc = "tables"
    /\ \E f \in FailPoints : Outcome(updateTables(Start("tables", f)), "indexes", "false")
    /\ UNCHANGED <<options, skipUserPrompts, answers, databaseCaseImplementation,
                   dataModel, databaseConfig, moduleConnections, existingTables,
                   tablesToCreate, tablesToRemove, engines, run>>

UpdateIndexesStep ==
    /\ pc = "indexes"
    /\ \E f \in FailPoints :
        Outcome(updateIndexes(Start("indexes", f)), "addRelationships", "false")
    /\ UNCHANGED <<options, skipUserPrompts, answers, databaseCaseImplementation,
                   dataModel, databaseConfig, moduleConnections, existingTables,
                   tablesToCreate, tablesToRemove, engines, run>>

\* updateRelationships() and, when it gives true, process.exit(0)
AddRelationshipsStep ==
    /\ pc = "addRelationships"
    /\ \E f \in FailPoints :
        Outcome(updateRelationships(Start("addRelationships", f), FALSE), "done", "false")
    /\ UNCHANGED <<options, skipUserPrompts, answers, databaseCaseImplementation,
                   dataModel, databaseConfig, moduleConnections, existingTables,
                   tablesToCreate, tablesToRemove, engines, run>>

\* After a run that succeeded the operator starts the tool again, with the
\* same options, on the database the run left: a new process with new
\* connections, whose sessions start with FOREIGN_KEY_CHECKS = 1
NextRun ==
    /\ pc = "done"
    /\ result = "success"
    /\ run < MaxRuns
    /\ run' = run + 1
    /\ pc' = "init"
    /\ result' = "running"
    /\ answers' = <<>>
    /\ dataModel' = <<>>
    /\ databaseConfig' = DefaultDatabaseConfig
    /\ moduleConnections' = <<>>
    /\ foreignKeyChecksDisabled' = FALSE
    /\ existingTables' = <<>>
    /\ tablesToCreate' = <<>>
    /\ tablesToRemove' = <<>>
    /\ fkc' = [m \in Modules |-> 1]
    /\ txn' = [m \in Modules |-> FALSE]
    /\ log' = <<>>
    /\ UNCHANGED <<options, skipUserPrompts, databaseCaseImplementation, db, engines,
                   nextId>>

Next ==
    \/ InitStep
    \/ IntegrityStep
    \/ DisableStep
    \/ IntrospectStep
    \/ RemoveStep
    \/ CreateStep
    \/ DropRelationshipsStep
    \/ UpdateTablesStep
    \/ UpdateIndexesStep
    \/ AddRelationshipsStep
    \/ NextRun

Spec == Init /\ [][Next]_vars

\* ------------------------------------------------------------ properties of a run
\* log holds the statements of the current run in the order in which they were
\* issued, each with the FOREIGN_KEY_CHECKS value of its session at that moment.

Succeeded == pc = "done" /\ result = "success"

ColumnStatements == {"ADD COLUMN", "MODIFY COLUMN", "DROP COLUMN"}

IndexStatements == {"ADD INDEX", "DROP INDEX"}

\* The positions in the log of the statements of the given kinds that MySQL
\* executed
Issued(kinds) == {i \in 1..Len(log) : log[i].st.kind \in kinds /\ log[i].ok}

EntityNames == Range(Keys(dataModel))

ConnectedModules == Range(Keys(moduleConnections))

HasTable(d, entityName) ==
    getCaseNormalizedString(entityName)
        \in DOMAIN d[SchemaOf(Get(dataModel, entityName).module)]

\* The table of an entity in server state d
EntityTable(d, entityName) ==
    d[SchemaOf(Get(dataModel, entityName).module)][getCaseNormalizedString(entityName)]

\* |expectedForeignKeys(M)|: the roles of all relationships of all entities
RECURSIVE RolesIn(_)
RolesIn(model) ==
    IF model = <<>> THEN 0
    ELSE Len(RelationshipPairs(Head(model).v.relationships)) + RolesIn(Tail(model))

\* C1: a run that follows a successful run with the same model issues no
\* ADD COLUMN, MODIFY COLUMN or DROP COLUMN statement and no ADD INDEX or
\* DROP INDEX statement.
C1_SecondRunChangesNoColumnOrIndex ==
    run > 1 => \A i \in 1..Len(log) :
                    log[i].st.kind \notin ColumnStatements \cup IndexStatements

\* C2: every DDL statement executed between the first DROP TABLE of an orphan
\* and the last ADD FOREIGN KEY of the run is executed on a session whose
\* FOREIGN_KEY_CHECKS is 0.
C2_DdlUnderDisabledChecks ==
    \A j \in Issued({"CREATE TABLE", "DROP TABLE"} \cup ColumnStatements
                    \cup IndexStatements \cup {"ADD FOREIGN KEY", "DROP FOREIGN KEY"}) :
        (/\ \E i \in Issued({"DROP TABLE"}) : i <= j
         /\ \E k \in Issued({"ADD FOREIGN KEY"}) : j <= k)
        => log[j].fkc = 0

\* C3: when a run in which SET FOREIGN_KEY_CHECKS = 0 was executed has ended,
\* and no SET FOREIGN_KEY_CHECKS statement of the run failed,
\* FOREIGN_KEY_CHECKS is 1 on the session of every module.
C3_ChecksRestoredAtEnd ==
    (/\ pc = "done"
     /\ \E i \in Issued({"SET FOREIGN_KEY_CHECKS"}) : log[i].st.value = 0
     /\ \A i \in 1..Len(log) : log[i].st.kind = "SET FOREIGN_KEY_CHECKS" => log[i].ok)
    => \A m \in ConnectedModules : fkc[m] = 1

\* The phase a statement belongs to by its kind; 0 for the statements that
\* more than one phase issues
PhaseOf(st) ==
    CASE st.kind = "SHOW ENGINES" -> 2
      [] st.kind = "SET FOREIGN_KEY_CHECKS" /\ st.value = 0 -> 3
      [] st.kind = "SHOW FULL TABLES" -> 4
      [] st.kind = "DROP TABLE" -> 5
      [] st.kind = "CREATE TABLE" -> 6
      [] st.kind = "DROP FOREIGN KEY" -> 7
      [] st.kind \in ColumnStatements \cup {"SHOW FULL COLUMNS"} -> 8
      [] st.kind \in IndexStatements \cup {"SHOW INDEX"} -> 9
      [] st.kind = "ADD FOREIGN KEY" -> 10
      [] st.kind = "SET FOREIGN_KEY_CHECKS" /\ st.value = 1 -> 11
      [] OTHER -> 0

\* C4: the statements of a run are issued phase by phase: integrity probe,
\* disable foreign key checks, introspect, drop orphans, create tables, drop
\* foreign keys, columns, indexes, add foreign keys, restore foreign key
\* checks; no statement of a later phase precedes a statement of an earlier one.
C4_PhaseOrder ==
    \A i, j \in 1..Len(log) :
        (i < j /\ PhaseOf(log[i].st) # 0 /\ PhaseOf(log[j].st) # 0)
        => PhaseOf(log[i].st) <= PhaseOf(log[j].st)

\* C5: after a successful run in which the operator chose to drop all orphan
\* tables, the tables present in the schemas of the modules are exactly the
\* tables of the model's entities.
C5_NoStrayTables ==
    (Succeeded /\ answers \in {<<"all">>, <<"list", "all">>})
    => UNION {DOMAIN db[SchemaOf(m)] : m \in ConnectedModules}
        = {getCaseNormalizedString(n) : n \in EntityNames}

\* ExpectedColumnSet(e): the primary key, the normalized attribute names, the
\* relationship columns, and the locking column when locking is enforced
ExpectedColumnSetOf(e) ==
    {getPrimaryKeyColumn}
    \cup {getCaseNormalizedString(e.attributes[i].k) : i \in 1..Len(e.attributes)}
    \cup {RelationshipColumnName(p) : p \in Range(RelationshipPairs(e.relationships))}
    \cup (IF LockingEnforced(e) THEN {getLockingConstraintColumn} ELSE {})

ExpectedColumnSet(entityName) == ExpectedColumnSetOf(Get(dataModel, entityName))

ColumnSetOf(tbl) == {tbl.cols[i].Field : i \in 1..Len(tbl.cols)}

\* Statement number i of the log is an executed statement of the given kind on
\* the given column of the entity's table
ColumnStatementAt(entries, i, kind, entityName, columnName) ==
    /\ entries[i].ok
    /\ entries[i].st.kind = kind
    /\ entries[i].module = Get(dataModel, entityName).module
    /\ entries[i].st.table = getCaseNormalizedString(entityName)
    /\ entries[i].st.col = columnName

\* Column reconciliation has added every missing expected column of the table
\* and dropped every column outside the expected set
Reconciled(before, after, entityName, expected, present) ==
    /\ \A c \in expected \ present :
          \E i \in (Len(before) + 1)..Len(after) :
              ColumnStatementAt(after, i, "ADD COLUMN", entityName, c)
    /\ \A c \in present \ expected :
          \E i \in (Len(before) + 1)..Len(after) :
              ColumnStatementAt(after, i, "DROP COLUMN", entityName, c)

References(tbl, pair) ==
    \E i \in 1..Len(tbl.fks) :
        /\ tbl.fks[i].col = RelationshipColumnName(pair)
        /\ tbl.fks[i].ref = getCaseNormalizedString(pair.rel)
        /\ tbl.fks[i].refCol = getPrimaryKeyColumn
        /\ tbl.fks[i].rule = "ON DELETE SET NULL ON UPDATE CASCADE"

ForeignKeysConform(tbl, pairs) ==
    /\ Len(tbl.fks) = Len(pairs)
    /\ \A k \in 1..Len(pairs) : References(tbl, pairs[k])

\* C7: after a successful run every entity's table stores as many foreign keys
\* as the entity has roles, and for every (rel, role) the foreign key on its
\* column references the primary key of the table of rel with ON DELETE SET
\* NULL ON UPDATE CASCADE.
C7_ForeignKeyConformance ==
    Succeeded =>
        \A n \in EntityNames :
            /\ HasTable(db, n)
            /\ ForeignKeysConform(EntityTable(db, n),
                                  RelationshipPairs(Get(dataModel, n).relationships))

\* C8: a successful run that follows a successful run with the same model
\* drops as many foreign keys as the model has roles, creates as many, and
\* drops all of them before it creates any.
C8_SecondRunRebuildsForeignKeys ==
    (run > 1 /\ Succeeded) =>
        /\ Cardinality(Issued({"DROP FOREIGN KEY"})) = RolesIn(dataModel)
        /\ Cardinality(Issued({"ADD FOREIGN KEY"})) = RolesIn(dataModel)
        /\ \A i \in Issued({"DROP FOREIGN KEY"}) :
              \A j \in Issued({"ADD FOREIGN KEY"}) : i < j

C8_Witness ==
    /\ run > 1
    /\ Succeeded
    /\ RolesIn(dataModel) = MaxRoles
    /\ Cardinality(Issued({"DROP FOREIGN KEY"})) = MaxRoles

\* The indexes of the table that MySQL created to back a foreign key
AutoIndexes(d, schema, t) ==
    {d[schema][t].idx[i].name : i \in {j \in 1..Len(d[schema][t].idx) :
                                          d[schema][t].idx[j].auto}}

\* C9: index reconciliation drops no index that MySQL created to back a
\* foreign key: every such index of a table is still an index of the table
\* when the phase is over.
C9_AutoIndexesSurvive ==
    [][pc = "indexes" =>
        \A schema \in DOMAIN db : \A t \in DOMAIN db[schema] :
            /\ t \in DOMAIN db'[schema]
            /\ AutoIndexes(db, schema, t) \subseteq AutoIndexes(db', schema, t)]_vars

IndexesConform(e, tbl) ==
    /\ \A k \in 1..Len(e.indexes) :
          HasIndex(tbl, getCaseNormalizedString(e.indexes[k].indexName))
    /\ \A i \in 1..Len(tbl.idx) :
          \/ tbl.idx[i].name = PRIMARY
          \/ \E k \in 1..Len(e.indexes) :
                tbl.idx[i].name = getCaseNormalizedString(e.indexes[k].indexName)
          \/ tbl.idx[i].auto /\ HasForeignKeyOn(tbl, tbl.idx[i].col)

\* C10: no DROP INDEX is ever issued for the index named PRIMARY in any letter
\* case, and after a successful run every entity's table has the model's
\* indexes under their normalized names, and each of its other indexes backs
\* a foreign key the table stores.
C10_IndexSet ==
    /\ \A i \in 1..Len(log) :
          log[i].st.kind = "DROP INDEX" => LowerCase(log[i].st.name) # LowerCase(PRIMARY)
    /\ Succeeded =>
          \A n \in EntityNames :
              HasTable(db, n) /\ IndexesConform(Get(dataModel, n), EntityTable(db, n))

C10_Witness ==
    /\ Succeeded
    /\ Issued({"DROP INDEX"}) # {}
    /\ \E n \in EntityNames : Get(dataModel, n).indexes # <<>>
    /\ \E n \in EntityNames :
          AutoIndexes(db, SchemaOf(Get(dataModel, n).module),
                      getCaseNormalizedString(n)) # {}

\* enforceLockingConstraints as documented: true unless the options give false
LockingDocumented(e) ==
    \/ "options" \notin DOMAIN e
    \/ ~Has(e.options, "enforceLockingConstraints")
    \/ Get(e.options, "enforceLockingConstraints") = JBool(TRUE)

\* C11: after a successful run the table of an entity has the locking column
\* if and only if enforceLockingConstraints is true for the entity, an entity
\* without options or without the key in its options counting as true.
C11_LockingColumnRule ==
    Succeeded =>
        \A n \in EntityNames :
            /\ HasTable(db, n)
            /\ (getLockingConstraintColumn \in ColumnSetOf(EntityTable(db, n)))
                <=> LockingDocumented(Get(dataModel, n))

\* C12: once a DDL statement of a run has failed, the run attempts no further
\* DDL statement on any module.
C12_AbortOnDdlFailure ==
    \A i, j \in 1..Len(log) :
        (i < j /\ IsDDL(log[i].st) /\ ~log[i].ok) => ~IsDDL(log[j].st)

\* No SET FOREIGN_KEY_CHECKS and no DDL statement has been issued, and no
\* transaction has been begun
Untouched(entries, open) ==
    /\ \A i \in 1..Len(entries) :
          entries[i].st.kind # "SET FOREIGN_KEY_CHECKS" /\ ~IsDDL(entries[i].st)
    /\ \A m \in DOMAIN open : ~open[m]

\* C13: up to the end of the integrity probe, and when the run ends in
\* validation or in the integrity probe, no SET FOREIGN_KEY_CHECKS and no DDL
\* statement has been issued and no transaction has been begun on any module
\* connection.
C13_NoMutationBeforeIntegrity ==
    /\ [](pc \in {"init", "integrity"} => Untouched(log, txn))
    /\ [][(pc \in {"init", "integrity"} /\ pc' = "done") => Untouched(log', txn')]_vars

\* the integrity probe has turned down an engine that is not the default
C13_Witness ==
    /\ pc = "done"
    /\ result = "exit1"
    /\ Issued({"SHOW ENGINES"}) # {}
    /\ \E m \in ConnectedModules : engines[m] \notin {"DEFAULT", "absent"}
    /\ Untouched(log, txn)

\* C14: the run gets past the integrity probe only if SHOW ENGINES reports
\* InnoDB as the default storage engine on every module connection.
C14_ProbeRequiresInnoDB ==
    [][(pc = "integrity" /\ pc' = "disable") =>
        \A m \in ConnectedModules : engines[m] = "DEFAULT"]_vars

\* C15: when the operator has chosen all, directly or after list, and no
\* statement has failed, no table of tablesToRemove is left in the schema of
\* any module when the drop phase is over.
C15_AllRemovesEveryOrphan ==
    [][(/\ pc = "remove"
        /\ pc' = "create"
        /\ answers' \in {<<"all">>, <<"list", "all">>}
        /\ \A i \in 1..Len(log') : log'[i].ok)
       => \A t \in Range(tablesToRemove) : \A m \in ConnectedModules :
              t \notin DOMAIN db'[SchemaOf(m)]]_vars

\* The operator's answers end in none: at once, after list, or after an
\* answer the menu does not know
NoneChosen(script) ==
    script \in {<<"none">>, <<"list", "none">>, <<"again", "none">>}

\* C16: when syncDatabase runs headless or the operator answers none, the drop
\* phase issues no DROP TABLE statement and leaves the tables of every schema
\* as they were.
C16_NoneDropsNothing ==
    [][(pc = "remove" /\ pc' # "remove" /\ (skipUserPrompts \/ NoneChosen(answers')))
       => /\ \A i \in 1..Len(log') : log'[i].st.kind # "DROP TABLE"
          /\ \A schema \in DOMAIN db : DOMAIN db'[schema] = DOMAIN db[schema]]_vars

\* the drop phase is over, there were orphans, and the operator chose none
\* after list
C16_Witness ==
    /\ pc = "create"
    /\ tablesToRemove # <<>>
    /\ answers = <<"list", "none">>
    /\ \A t \in Range(tablesToRemove) : \E schema \in DOMAIN db : t \in DOMAIN db[schema]

\* The positions in the log of the COMMIT statements of a module (syncDatabase
\* has no call of commitForAllModuleConnections, so the log never holds one)
CommitsOf(m) ==
    {i \in 1..Len(log) : log[i].st.kind = "COMMIT" /\ log[i].module = m}

\* C17: a transaction is begun on every module connection before the first
\* DDL statement, and a successful run commits every module's transaction
\* exactly once, after foreign key checks have been restored.
C17_BeginThenCommitOnce ==
    /\ [][(pc = "introspect" /\ pc' = "remove")
          => \A m \in ConnectedModules : txn'[m]]_vars
    /\ [][((\A i \in 1..Len(log) : ~IsDDL(log[i].st))
            /\ (\E i \in 1..Len(log') : IsDDL(log'[i].st)))
          => pc \notin {"init", "integrity", "disable", "introspect"}]_vars
    /\ [](Succeeded =>
            \A m \in ConnectedModules :
                /\ Cardinality(CommitsOf(m)) = 1
                /\ \A i \in CommitsOf(m) : \A j \in 1..Len(log) :
                       log[j].st.kind = "SET FOREIGN_KEY_CHECKS" => j < i)

\* C18: when a DDL statement has failed, then by the end of the run every
\* module connection has been rolled back after the failure, or holds no open
\* transaction.
C18_RollbackOnDdlFailure ==
    pc = "done" =>
        \A i \in 1..Len(log) :
            (IsDDL(log[i].st) /\ ~log[i].ok) =>
                \A m \in ConnectedModules :
                    \/ ~txn[m]
                    \/ \E j \in (i + 1)..Len(log) :
                           log[j].st.kind = "ROLLBACK" /\ log[j].module = m

\* The attribute definitions of the entities of a model
AttributeDefinitionsOf(model) ==
    UNION {{model[i].v.attributes[j].v : j \in 1..Len(model[i].v.attributes)} :
              i \in {e \in 1..Len(model) : "attributes" \in DOMAIN model[e].v}}

\* C19: validation accepts an attribute definition exactly when its key set is
\* {type, lengthOrValues, default, allowNull}.
C19_FourKeyAttributes ==
    isValidObject(options.dataModel) =>
        \A a \in AttributeDefinitionsOf(options.dataModel.v) :
            validateAttribute(a)
                <=> DOMAIN a = {"type", "lengthOrValues", "default", "allowNull"}

\* The index definitions of the entities of a model
IndexDefinitionsOf(model) ==
    UNION {Range(model[i].v.indexes) :
              i \in {e \in 1..Len(model) : "indexes" \in DOMAIN model[e].v}}

\* An index definition that the documentation of validateIndex turns down
MalformedIndex(indexDefinition) ==
    \/ DOMAIN indexDefinition # {"attribute", "indexName", "indexChoice", "type"}
    \/ ~Includes(allowedIndexChoices, LowerCase(indexDefinition.indexChoice))
    \/ ~Includes(allowedIndexTypes, UpperCase(indexDefinition.type))

\* C20: validateDataModel gives the validated model or false and never
\* throws; a model that holds a malformed index definition gives false.
C20_ValidationNeverThrows ==
    /\ validateDataModel(options.dataModel).ret \in {"true", "false"}
    /\ (/\ isValidObject(options.dataModel)
        /\ \E ix \in IndexDefinitionsOf(options.dataModel.v) : MalformedIndex(ix))
       => validateDataModel(options.dataModel).ret = "false"

\* The case policy the caller asked for
RequestedPolicy ==
    IF "databaseCaseImplementation" \in DOMAIN options
    THEN options.databaseCaseImplementation
    ELSE SNAKE_CASE

\* C21: once init has succeeded, the primary key column, the locking column
\* and the separator of relationship columns are those of the case policy in
\* options.databaseCaseImplementation (snakecase when the option is absent).
C21_PolicyGovernsNames ==
    (pc # "init" /\ moduleConnections # <<>>) =>
        /\ getPrimaryKeyColumn
             = (IF RequestedPolicy = PASCAL_CASE THEN <<"I", "d">> ELSE <<"i", "d">>)
        /\ getLockingConstraintColumn
             = CASE RequestedPolicy = PASCAL_CASE ->
                      <<"L", "a", "s", "t", "U", "p", "d", "a", "t", "e", "d">>
                 [] RequestedPolicy = CAMEL_CASE ->
                      <<"l", "a", "s", "t", "U", "p", "d", "a", "t", "e", "d">>
                 [] OTHER -> <<"l", "a", "s", "t", "_", "u", "p", "d", "a", "t", "e", "d">>
        /\ RelationshipSplitter
             = (IF RequestedPolicy \in {PASCAL_CASE, CAMEL_CASE} THEN <<>> ELSE Underscore)

\* The entity names and attribute names of a model
IdentifiersOf(model) ==
    Range(Keys(model))
    \cup UNION {Range(Keys(model[i].v.attributes)) :
                   i \in {e \in 1..Len(model) : "attributes" \in DOMAIN model[e].v}}

\* C22: under each case policy, denormalizing the normalized form of an entity
\* name or attribute name of the model gives the name back.
C22_CaseRoundTrip ==
    isValidObject(options.dataModel) =>
        \A policy \in DB_IMPLEMENTATION_TYPES :
            \A x \in IdentifiersOf(options.dataModel.v) :
                CaseDenormalized(policy, CaseNormalized(policy, x)) = x

\* C23: no statement of a run is issued while an earlier statement of the run
\* has not completed.
C23_StrictSequencing ==
    \A i \in 1..Len(log) : ~log[i].overlapped

\* The operator's first answer at the orphan-table menu, or the answer after
\* list, is none of the selections the menu offers
InvalidSelection(script) ==
    /\ script # <<>>
    /\ \/ Head(script) \notin {"y", "all", "none", "list"}
       \/ /\ Head(script) = "list"
          /\ Len(script) > 1
          /\ script[2] \notin {"y", "all", "none"}

\* C24: when the operator gave an invalid selection at the orphan-table menu,
\* no DDL statement is executed in the run.
C24_CancelMeansNoDdl ==
    InvalidSelection(answers) => \A i \in 1..Len(log) : ~(IsDDL(log[i].st) /\ log[i].ok)

\* The status the process exits with at the end of the run: process.exit(0)
\* after success and after a failed createTables, process.exit(1) after a
\* failed init or integrity check; -1 where syncDatabase returns false or
\* throws and calls process.exit nowhere
ExitStatus ==
    CASE result \in {"success", "createFailed"} -> 0
      [] result = "exit1" -> 1
      [] OTHER -> -1

\* C25: at the end of a run the exit status is 0 only when no statement of
\* the run failed, and it is 2 when a DDL statement failed.
C25_ExitStatus ==
    pc = "done" =>
        /\ ExitStatus = 0 => \A i \in 1..Len(log) : log[i].ok
        /\ (\E i \in 1..Len(log) : IsDDL(log[i].st) /\ ~log[i].ok) => ExitStatus = 2

\* The constraint names that a pass starting with the given seed generates
\* for the entities of the model are those that a pass starting with the
\* other seed generates
SameConstraintNames(seed, other) ==
    \A e \in EntityNames :
        getEntityRelationshipConstraint(e, seed) = getEntityRelationshipConstraint(e, other)

\* C26: the drop-only pass, index reconciliation and the add pass of one run
\* work with the same constraint name for the same entity and column.
C26_ConstraintNamesGeneratedOnce ==
    [][/\ (pc = "dropRelationships" /\ pc' = "tables")
            => SameConstraintNames(nextId, nextId')
       /\ (pc = "indexes" /\ pc' = "addRelationships")
            => SameConstraintNames(nextId, nextId')]_vars

\* The table names of the entities of the model
EntityTableNames == {getCaseNormalizedString(e) : e \in EntityNames}

\* C27: no DROP TABLE statement of a run names the table of an entity of the
\* model.
C27_NoEntityTableDropped ==
    \A i \in 1..Len(log) :
        log[i].st.kind = "DROP TABLE" =>
            Range(log[i].st.tables) \cap EntityTableNames = {}

\* orphan tables have been dropped one by one in a database that also held
\* the table of an entity, and that table is still there
C27_Witness ==
    /\ pc = "create"
    /\ Len(answers) > 1 /\ answers[1] = "y" /\ answers[2] = "y"
    /\ \E i \in 1..Len(log) : log[i].st.kind = "DROP TABLE" /\ log[i].ok
    /\ \E e \in EntityNames : HasTable(db, e) /\ getCaseNormalizedString(e) \in Range(existingTables)

\* C28: when createTables has returned true, and when the run has succeeded,
\* the table of every entity exists in the schema of the entity's own module.
C28_TableInOwnSchema ==
    /\ [][(pc = "create" /\ pc' = "dropRelationships")
            => \A e \in EntityNames : HasTable(db', e)]_vars
    /\ [](Succeeded => \A e \in EntityNames : HasTable(db, e))

\* C29: no DROP COLUMN or MODIFY COLUMN statement of a run names the primary
\* key column, and under each case policy the test that skips an existing
\* column (its denormalized name is the primary key column) holds for the
\* primary key column.
C29_PrimaryKeyColumnSkipped ==
    /\ \A i \in 1..Len(log) :
          log[i].st.kind \in {"DROP COLUMN", "MODIFY COLUMN"}
              => log[i].st.col # getPrimaryKeyColumn
    /\ \A policy \in DB_IMPLEMENTATION_TYPES :
          CaseDenormalized(policy, PrimaryKeyColumnOf(policy)) = PrimaryKeyColumnOf(policy)

\* The positions among the entries after position from of the column
\* statements for the column of the entity's table
ColumnStatementsFor(entries, from, entityName, columnName) ==
    {i \in (from + 1)..Len(entries) :
        /\ entries[i].st.kind \in ColumnStatements
        /\ entries[i].module = Get(dataModel, entityName).module
        /\ entries[i].st.table = getCaseNormalizedString(entityName)
        /\ entries[i].st.col = columnName}

\* The column that MODIFY COLUMN built from the attribute definition leaves
ColumnAsDefined(columnName, attribute) ==
    ColumnOf(columnName, getAlterColumnSql(columnName, attribute, "MODIFY COLUMN").def)

\* What column reconciliation may have queued for one existing column: at
\* most one statement; for the column of an attribute nothing when the column
\* is as the attribute defines it, and else one MODIFY COLUMN built from the
\* attribute definition
OneStatementAtMost(entries, new, tableColumn, attributes, attributeName) ==
    /\ Cardinality(new) <= 1
    /\ Has(attributes, attributeName) =>
          IF tableColumn = ColumnAsDefined(tableColumn.Field, Get(attributes, attributeName))
          THEN new = {}
          ELSE \E i \in new :
                  /\ entries[i].st.kind = "MODIFY COLUMN"
                  /\ entries[i].st.def
                        = getAlterColumnSql(tableColumn.Field,
                                            Get(attributes, attributeName),
                                            "MODIFY COLUMN").def

ColumnsReconciledOnce(entries, from, entityName, tableColumns) ==
    \A k \in 1..Len(tableColumns) :
        OneStatementAtMost(
            entries,
            ColumnStatementsFor(entries, from, entityName, tableColumns[k].Field),
            tableColumns[k],
            Get(dataModel, entityName).attributes,
            getCaseDenormalizedString(tableColumns[k].Field))

\* C30: column reconciliation issues at most one statement for each existing
\* column; for an attribute's column it issues one MODIFY COLUMN built from the
\* attribute definition when the column differs from the definition, and no
\* statement when it does not.
C30_OneStatementPerColumn ==
    [][(pc = "tables" /\ pc' = "indexes") =>
        \A n \in EntityNames :
            ColumnsReconciledOnce(log', Len(log), n, EntityTable(db, n).cols)]_vars

\* What column reconciliation may have queued for an existing locking column:
\* nothing when it is a datetime with default CURRENT_TIMESTAMP, and else a
\* MODIFY COLUMN to the definition the locking column is added with
LockingColumnRestored(entries, new, tableColumn) ==
    IF tableColumn.Type = "datetime" /\ tableColumn.Default = JStr(CURRENT_TIMESTAMP)
    THEN new = {}
    ELSE \E i \in new :
            /\ entries[i].st.kind = "MODIFY COLUMN"
            /\ entries[i].st.def
                  = getAlterColumnSql(tableColumn.Field, LockingDefinition, "ADD COLUMN").def

LockingColumnsRestored(entries, from, entityName, tableColumns) ==
    \A k \in 1..Len(tableColumns) :
        tableColumns[k].Field = getLockingConstraintColumn =>
            LockingColumnRestored(
                entries,
                ColumnStatementsFor(entries, from, entityName, tableColumns[k].Field),
                tableColumns[k])

\* C31: for an entity that enforces locking, column reconciliation leaves an
\* existing locking column alone only when it is a datetime with default
\* CURRENT_TIMESTAMP, and otherwise issues a MODIFY COLUMN to the definition
\* ADD COLUMN gives the locking column.
C31_LockingColumnRestored ==
    [][(pc = "tables" /\ pc' = "indexes") =>
        \A n \in EntityNames :
            LockingEnforced(Get(dataModel, n)) =>
                LockingColumnsRestored(log', Len(log), n, EntityTable(db, n).cols)]_vars

\* C32: between the calls of syncDatabase's functions, foreignKeyChecksDisabled
\* is true with FOREIGN_KEY_CHECKS = 0 on every module connection, or false
\* with FOREIGN_KEY_CHECKS = 1 on every module connection.
C32_FlagAgreesWithSessions ==
    (pc \notin {"init", "done"}) =>
        \/ foreignKeyChecksDisabled /\ \A m \in ConnectedModules : fkc[m] = 0
        \/ ~foreignKeyChecksDisabled /\ \A m \in ConnectedModules : fkc[m] = 1

\* The positions in the log of the column statements of column reconciliation
QueuedColumnStatements ==
    {i \in 1..Len(log) : log[i].phase = "tables" /\ log[i].st.kind \in ColumnStatements}

\* The place in the model of the entity whose table, in the module of the
\* entry, the statement is for
EntityPlace(entry) ==
    CHOOSE k \in 1..Len(dataModel) :
        /\ getCaseNormalizedString(dataModel[k].k) = entry.st.table
        /\ dataModel[k].v.module = entry.module

\* 1 for the statement of an existing column, 2 for an added attribute or
\* locking column, 3 for an added relationship column
GenerationRank(st, entityName) ==
    IF st.kind # "ADD COLUMN" THEN 1
    ELSE IF st.def = BigInt20 /\ Includes(getEntityRelationshipColumns(entityName), st.col)
    THEN 3
    ELSE 2

\* entry a was generated no later than entry b of the same module
GeneratedBefore(a, b, placeA, placeB) ==
    \/ placeA < placeB
    \/ /\ placeA = placeB
       /\ GenerationRank(a.st, dataModel[placeA].k) <= GenerationRank(b.st, dataModel[placeB].k)

\* C33: in column reconciliation every SHOW FULL COLUMNS comes before the first
\* column statement; the column statements of one module are executed
\* together, and in the order in which they were generated.
C33_ReadThenExecuteInOrder ==
    \A i, j \in QueuedColumnStatements :
        i < j =>
            /\ \A r \in 1..Len(log) :
                  (log[r].phase = "tables" /\ log[r].st.kind = "SHOW FULL COLUMNS") => r < i
            /\ (log[i].module # log[j].module) =>
                  \A k \in QueuedColumnStatements : k > j => log[k].module # log[i].module
            /\ (log[i].module = log[j].module) =>
                  GeneratedBefore(log[i], log[j], EntityPlace(log[i]), EntityPlace(log[j]))

\* column reconciliation has executed statements for two entities of one
\* module, among them an added attribute column and an added relationship
\* column of one table
C33_Witness ==
    /\ \E i, j \in QueuedColumnStatements :
          /\ log[i].module = log[j].module
          /\ log[i].st.table # log[j].st.table
    /\ \E i, j \in QueuedColumnStatements :
          /\ log[i].st.table = log[j].st.table /\ log[i].module = log[j].module
          /\ GenerationRank(log[i].st, dataModel[EntityPlace(log[i])].k) = 2
          /\ GenerationRank(log[j].st, dataModel[EntityPlace(log[j])].k) = 3

\* The positions among the entries after position from of the DROP TABLE
\* statements
DropTableStatements(entries, from) ==
    {i \in (from + 1)..Len(entries) : entries[i].st.kind = "DROP TABLE"}

\* Each statement names only tables that the schema of its connection's
\* module held, and no table is named by two statements
DropsPartitioned(entries, drops, before) ==
    \A i \in drops :
        /\ Range(entries[i].st.tables) \subseteq DOMAIN before[SchemaOf(entries[i].module)]
        /\ \A j \in drops \ {i} :
              Range(entries[i].st.tables) \cap Range(entries[j].st.tables) = {}

\* C34: every DROP TABLE of the orphan-removal phase names only tables of the
\* schema of the module on whose connection it is executed, and no orphan
\* table is named by more than one statement.
C34_DropsPartitionedByModule ==
    [][pc = "remove" => DropsPartitioned(log', DropTableStatements(log', Len(log)), db)]_vars

\* The position of a table in a list of tables; 0 where the list lacks it
PlaceIn(tables, table) ==
    IF \E k \in 1..Len(tables) : tables[k] = table
    THEN CHOOSE k \in 1..Len(tables) : tables[k] = table
    ELSE 0

\* The statements among drops that name exactly the one table
DropsOf(entries, drops, table) == {i \in drops : entries[i].st.tables = <<table>>}

\* The table was asked about once and treated as answered: dropped on every
\* connection when the answer was y, named by no statement otherwise, and
\* gone afterwards exactly where a statement for it succeeded
AnsweredAsTyped(entries, drops, table, answer, before, after) ==
    /\ (answer = "y") <=> (DropsOf(entries, drops, table) # {})
    /\ answer = "y" =>
          \A m \in ConnectedModules :
              Cardinality({i \in DropsOf(entries, drops, table) : entries[i].module = m}) = 1
    /\ \A m \in ConnectedModules :
          table \in DOMAIN before[SchemaOf(m)] =>
              (table \notin DOMAIN after[SchemaOf(m)]
                  <=> \E i \in DropsOf(entries, drops, table) :
                         /\ SchemaOf(entries[i].module) = SchemaOf(m)
                         /\ entries[i].ok)

\* The statements follow the order of the list
DropsInListOrder(entries, drops, tables) ==
    \A i, j \in drops :
        i < j => PlaceIn(tables, entries[i].st.tables[1]) <= PlaceIn(tables, entries[j].st.tables[1])

\* C35: one-by-one removal ends after exactly one prompt per orphan table,
\* asked in list order; a table is dropped if and only if its own prompt was
\* answered y, and a declined or failed drop does not keep the later tables
\* from being asked about.
C35_OnePromptPerOrphan ==
    [][(pc = "remove" /\ answers' # <<>> /\ Head(answers') = "y") =>
          /\ Len(answers') = Len(tablesToRemove) + 1
          /\ DropsInListOrder(log', DropTableStatements(log', Len(log)), tablesToRemove)
          /\ \A k \in 1..Len(tablesToRemove) :
                AnsweredAsTyped(log', DropTableStatements(log', Len(log)),
                                tablesToRemove[k], answers'[k + 1], db, db')]_vars

\* A run in which the first orphan's drop failed, the second orphan was
\* declined and the third was dropped all the same
C35_Witness ==
    /\ pc = "create"
    /\ Len(answers) = 4
    /\ answers = <<"y", "y", "n", "y">>
    /\ \E i, j \in 1..Len(log) :
          /\ i < j
          /\ log[i].st.kind = "DROP TABLE" /\ ~log[i].ok
          /\ log[i].st.tables = <<tablesToRemove[1]>>
          /\ log[j].st.kind = "DROP TABLE" /\ log[j].ok
          /\ log[j].st.tables = <<tablesToRemove[3]>>
    /\ \A m \in ConnectedModules : tablesToRemove[2] \in DOMAIN db[SchemaOf(m)]

\* The normalized names of the indexes the model gives the entity
ModelIndexNames(e) ==
    {getCaseNormalizedString(e.indexes[k].indexName) : k \in 1..Len(e.indexes)}

\* The indexes of the table that carry the name of one of the model's indexes
IndexesKnownByName(e, tbl) ==
    {tbl.idx[i] : i \in {j \in 1..Len(tbl.idx) : tbl.idx[j].name \in ModelIndexNames(e)}}

\* The index is an index of the table as it was
StillStored(tbl, index) == \E i \in 1..Len(tbl.idx) : tbl.idx[i] = index

\* No ADD INDEX and no DROP INDEX among the entries after position from names
\* the index of the table
NoIndexStatementFor(entries, from, tableName, indexName) ==
    \A i \in (from + 1)..Len(entries) :
        ~(/\ entries[i].st.kind \in IndexStatements
          /\ entries[i].st.table = tableName
          /\ entries[i].st.name = indexName)

\* A DROP COLUMN among the entries after position from took the column of
\* the table away
ColumnDropped(entries, from, tableName, columnName) ==
    \E i \in (from + 1)..Len(entries) :
        /\ entries[i].st.kind = "DROP COLUMN"
        /\ entries[i].st.table = tableName
        /\ entries[i].st.col = columnName
        /\ entries[i].ok

\* The step left every index known by name as it was and issued no index
\* statement for it
KnownIndexesUntouched(e, tableName, before, after, entries, from) ==
    \A index \in IndexesKnownByName(e, before) :
        /\ StillStored(after, index)
        /\ NoIndexStatementFor(entries, from, tableName, index.name)

\* The same, but for the indexes whose column the step dropped
KnownIndexesUntouchedOnKeptColumns(e, tableName, before, after, entries, from) ==
    \A index \in IndexesKnownByName(e, before) :
        /\ NoIndexStatementFor(entries, from, tableName, index.name)
        /\ StillStored(after, index) \/ ColumnDropped(entries, from, tableName, index.col)

\* C36 as stated: an index of an entity's table that carries the normalized
\* name of one of the model's indexes is never dropped, re-created or altered
\* by a step of a run, whatever column it is on.
C36_NameMatchedIndexUntouched ==
    [][\A n \in EntityNames :
          (HasTable(db, n) /\ HasTable(db', n)) =>
              KnownIndexesUntouched(Get(dataModel, n), getCaseNormalizedString(n),
                                    EntityTable(db, n), EntityTable(db', n),
                                    log', IF run' = run THEN Len(log) ELSE 0)]_vars

\* C36 amended: index reconciliation compares indexes by name only; an index
\* of an entity's table that carries the normalized name of one of the
\* model's indexes is never the subject of an ADD INDEX or DROP INDEX
\* statement and stays as stored, whatever column it is on, unless column
\* reconciliation drops that column.
C36_NameMatchedIndexKept ==
    [][\A n \in EntityNames :
          (HasTable(db, n) /\ HasTable(db', n)) =>
              KnownIndexesUntouchedOnKeptColumns(
                  Get(dataModel, n), getCaseNormalizedString(n),
                  EntityTable(db, n), EntityTable(db', n),
                  log', IF run' = run THEN Len(log) ELSE 0)]_vars

\* A successful run over a table whose index of the model's name is on
\* another column than the model's attribute, and still is
C36_Witness ==
    /\ Succeeded
    /\ \E n \in EntityNames :
          /\ HasTable(db, n)
          /\ \E k \in 1..Len(Get(dataModel, n).indexes) :
                \E index \in IndexesKnownByName(Get(dataModel, n), EntityTable(db, n)) :
                    /\ index.name = getCaseNormalizedString(Get(dataModel, n).indexes[k].indexName)
                    /\ index.col # getCaseNormalizedString(Get(dataModel, n).indexes[k].attribute)
    /\ \E i \in 1..Len(log) : log[i].phase = "indexes" /\ log[i].st.kind = "SHOW INDEX"

====
